---- MODULE Spec2Model ----
(***************************************************************************)
(* Resilience primitives and dispatch of the VoltQuery backend.            *)
(*                                                                         *)
(* The module holds several state machines over one set of variables; each *)
(* has its own specification and leaves the other machines' variables at   *)
(* their initial values:                                                   *)
(*   SpecBreaker   CircuitBreaker.call      (src/unnamed/part_003 126-165) *)
(*   SpecCache     CacheService.get_or_fetch (src/unnamed/part_003 73-101) *)
(*   SpecRetry     retry_with_backoff        (src/unnamed/part_003 29-52)  *)
(*   SpecDispatch  Dispatcher.run (spec 4.3) with the per-tool try/except  *)
(*                 of query()              (src/unnamed/part_003 283-304)  *)
(*   SpecStream    the handler of a streamed request (spec 6, 7, 9) with   *)
(*                 QueryValidator          (src/unnamed/part_003 184-207)  *)
(*   SpecDecompose Decomposer and Tool Name Resolver (spec 4.1, 4.2,       *)
(*                 src/backend/src/PARALLEL_SCENARIO.md)                   *)
(*   SpecScenario  keyword detection, ITC rules and scenario branching     *)
(*                 (src/unnamed/part_015, SCENARIO_BRANCHING.md)           *)
(*   SpecParallel  the two optimizer calls of a parallel scenario          *)
(*   SpecSynthesize  the source aggregation of the Synthesizer (spec 4.7)  *)
(*   SpecRates     the two implementations of the incentive rule           *)
(*   SpecClient    RAGQueryForm.handleSubmit (rag-query-form.tsx 93-235)   *)
(*   SpecCompose   retry(breaker.call(cache.get_or_fetch(...))) (spec 4.5) *)
(*                                                                         *)
(* The primitives are asyncio coroutines: code between two awaits runs     *)
(* atomically, and `await func()` is the only suspension point of each.    *)
(* An action is therefore the code from one await to the next.             *)
(***************************************************************************)
EXTENDS Integers, Sequences, FiniteSets, TLC

(***************************************************************************)
(* Program constants (defaults of the constructors / signatures).          *)
(***************************************************************************)
failure_threshold == 5
timeout_seconds == 60
success_threshold == 2
max_retries == 3
initial_delay == 1
max_delay == 60
backoff_factor == 2
ttl_seconds == 3600
min_question_length == 3
max_question_length == 2000
cutoff_date == 20260704

(***************************************************************************)
(* Bounds of the model.                                                    *)
(***************************************************************************)
NumCallers == 2
MaxCalls == 8
MaxTicks == 6
MaxCacheCalls == 4
MaxCacheTicks == 3
MaxSubQuestions == 3
MaxChunks == 2
MaxNameLen == 3
MaxTokens == 3
MaxNPV == 2
MaxRateCalls == 2
MaxStreamLen == 3
MaxSequences == 3

VARIABLES
    \* ---- CircuitBreaker (self.* of part_003 133-139)
    state, failure_count, success_count, last_failure_time,
    \* ---- wall clock read by datetime.now()
    now,
    \* ---- one coroutine per caller of CircuitBreaker.call
    bpc,         \* "idle" | "awaiting" (suspended in `await func()`)
    admittedIn,  \* breaker state under which the in-flight call was admitted
    boutcome,    \* how the caller's last call ended
    ncalls,      \* calls started so far (bounds the run)
    \* ---- history of the breaker, for the claims
    runActive,   \* only failures have completed since (Closed, failure_count 0)
    runLen,      \* how many
    hoSucc,      \* successes completed in the current HalfOpen episode
    \* ---- CacheService (self.cache of part_003 75)
    cache,       \* cache_key -> <<>> (absent) | <<cached_data, timestamp>>
    \* ---- one coroutine per caller of CacheService.get_or_fetch
    cpc,         \* "idle" | "fetching" (suspended in `await fetch_func()`)
    ckey,        \* cache_key of the caller's current / last call
    coutcome,    \* how the caller's last call ended, what it returned and
                 \* how often it invoked fetch_func
    ccalls,      \* get_or_fetch calls started so far (bounds the run)
    cactor,      \* the caller that started the latest call
    \* ---- retry_with_backoff: locals of one invocation (part_003 38-52)
    rpc,         \* "init" | "awaiting" (in `await func()`) | "sleeping"
                 \* (in `await asyncio.sleep`) | "returned" | "raised"
    attempt,     \* loop variable of `for attempt in range(max_retries)`
    delay,
    last_exception,
    r_initial_delay, \* the initial_delay argument of this invocation
    rinvocations,    \* how often func has been invoked
    rsleeps,         \* the delays slept, in order
    rerrors,         \* the kinds of the errors func raised, in order
    \* ---- Dispatcher.run: one request
    dpc,         \* "idle" | "gathering" | "returned" | "failed"
    subqs,       \* the SubQuestions of the request: the resolved tool ids
    tstatus,     \* per sub-question: "running" | "done" | "cancelled"
    results,     \* per sub-question: NoResult or its ToolResult
    completed,   \* what ended, in order: [index, outcome] per invocation
    returned,    \* the list run() returned
    \* ---- the handler of one streamed request (spec 6, 7, 9)
    spc,         \* "idle" | "validating" | a status stage | "closed"
    request,     \* {question, zip_code?} as the validators see it
    events,      \* the events written to the response stream, in order
    s_tools,     \* per sub-question: "pending" | "running" | "ok" | "failed"
    nchunks,     \* chunk events written so far
    \* ---- Decomposer and Tool Name Resolver (spec 4.1, 4.2)
    qpc,         \* "idle" | "decomposed" | "resolved"
    question,    \* the question text given to the Decomposer
    completion,  \* the completion text, as its tokens
    sub_questions, \* the list the Decomposer returned
    tool_name,   \* the name given to the Resolver, as its characters
    resolved,    \* the identifier the Resolver returned
    \* ---- optimization bundle and REoptService: one optimizer query
    fpc,         \* "idle" | "detected" | "purchase_call" | "lease_call" |
                 \* "single_call" | "returned"
    ftext,       \* the query string
    f_property_type,
    f_ownership_type,  \* "purchase" | "lease" | "none" (no keyword detected)
    today,       \* date.today(), as YYYYMMDD
    construction_start_date,
    payloads,    \* the payloads posted to the REopt API, in order
    scenarios,   \* the results extracted from its replies, in order
    fresult,     \* what the query returned
    \* ---- the two optimization_tool calls of a parallel scenario
    ppc,         \* per branch: "idle" | "built" | "awaiting" | "done"
    global_settings, \* the GlobalSettings object get_global_settings() gives
    local_payload, \* per branch: the local payload _build_payload returned
    posted,      \* per branch: the payload its request carried
    settings_at_post, \* per branch: ownership_type of global_settings when
                 \* its request was sent
    presults,    \* per branch: the scenario extracted from the reply
    \* ---- Answer Synthesizer (spec 4.7): one request
    ypc,         \* "idle" | "received" | "answered"
    tool_results, \* the ToolResults given to the Synthesizer, in
                 \* sub-question order: [success, sources]
    final_answer, \* the FinalAnswer: [sources, num_sources]
    \* ---- the incentive rule, asked of both its implementations
    rate_calls,  \* per call, in order: the inputs and the rate each
                 \* implementation returned
    \* ---- RAGQueryForm.handleSubmit (rag-query-form.tsx 93-235)
    kpc,         \* "idle" | "fetching" | "reading" | "finished"
    loading, loadingStage, response, error,  \* the component's state
    stream,      \* what the response body has still to deliver
    buffer,      \* the text read and not yet split off as a complete part,
                 \* as its event frames
    \* ---- one provider call, retry(breaker.call(cache.get_or_fetch(...))),
    \*      over the breaker, the cache and the retry locals above
    xpc,         \* "idle" | "calling" (at the top of breaker.call) |
                 \* "fetching" (in `await fetch_func()`) | "sleeping" |
                 \* "returned" | "raised"
    x_key,       \* cache_key of the provider call
    x_outcome,   \* how the retry sequence ended
    nseq,        \* retry sequences started so far (bounds the run)
    provider_calls, \* how often this sequence invoked the provider
    cache_lookups,  \* how often get_or_fetch has looked into self.cache
    slept        \* the delay of the sleep before the current attempt

bvars == <<state, failure_count, success_count, last_failure_time,
           bpc, admittedIn, boutcome, ncalls, runActive, runLen, hoSucc>>

cvars == <<cache, cpc, ckey, coutcome, ccalls, cactor>>

rvars == <<rpc, attempt, delay, last_exception, r_initial_delay,
           rinvocations, rsleeps, rerrors>>

dvars == <<dpc, subqs, tstatus, results, completed, returned>>

svars == <<spc, request, events, s_tools, nchunks>>

qvars == <<qpc, question, completion, sub_questions, tool_name, resolved>>

fvars == <<fpc, ftext, f_property_type, f_ownership_type, today,
           construction_start_date, payloads, scenarios, fresult>>

pvars == <<ppc, global_settings, local_payload, posted, settings_at_post, presults>>

yvars == <<ypc, tool_results, final_answer>>

kvars == <<kpc, loading, loadingStage, response, error, stream, buffer>>

xvars == <<xpc, x_key, x_outcome, nseq, provider_calls, cache_lookups, slept>>

vars == <<now, bvars, cvars, rvars, dvars, svars, qvars, fvars, pvars, yvars,
          rate_calls, kvars, xvars>>

\* What the actions of one machine leave alone of the other machines.
otherThanBreaker == <<cvars, rvars, dvars, svars, qvars, fvars, pvars, yvars,
    rate_calls, kvars, xvars>>
otherThanCache == <<bvars, rvars, dvars, svars, qvars, fvars, pvars, yvars,
    rate_calls, kvars, xvars>>
otherThanRetry == <<now, bvars, cvars, dvars, svars, qvars, fvars, pvars, yvars,
    rate_calls, kvars, xvars>>
otherThanDispatch == <<now, bvars, cvars, rvars, svars, qvars, fvars, pvars, yvars,
    rate_calls, kvars, xvars>>
\* The request handler drives tools, which go through the breaker and the
\* cache; it leaves alone the callers of the other machines.
otherThanStream == <<now, success_count, bpc, admittedIn, boutcome, ncalls,
                     runActive, runLen, hoSucc, cpc, ckey, coutcome, ccalls,
                     cactor, rvars, dvars, qvars, fvars, pvars,
                     yvars, rate_calls, kvars, xvars>>
otherThanDecompose == <<now, bvars, cvars, rvars, dvars, svars, fvars, pvars, yvars,
    rate_calls, kvars, xvars>>
otherThanScenario == <<now, bvars, cvars, rvars, dvars, svars, qvars, pvars, yvars,
    rate_calls, kvars, xvars>>
otherThanParallel == <<now, bvars, cvars, rvars, dvars, svars, qvars, fvars,
                       yvars, rate_calls, kvars, xvars>>
otherThanSynthesize == <<now, bvars, cvars, rvars, dvars, svars, qvars, fvars,
                         pvars, rate_calls, kvars, xvars>>
otherThanRates == <<now, bvars, cvars, rvars, dvars, svars, qvars, fvars,
                    pvars, yvars, kvars, xvars>>
otherThanClient == <<now, bvars, cvars, rvars, dvars, svars, qvars, fvars,
                     pvars, yvars, rate_calls, xvars>>

\* A composed provider call runs the breaker, the cache and the retry loop
\* of one caller; it leaves alone the callers of the single machines.
otherThanCompose == <<bpc, admittedIn, boutcome, ncalls, runActive, runLen,
                      hoSucc, cpc, ckey, coutcome, ccalls, cactor, rpc,
                      last_exception, rinvocations, rsleeps, rerrors,
                      dvars, svars, qvars, fvars, pvars, yvars, rate_calls,
                      kvars>>

Callers == 1..NumCallers

\* timedelta(seconds=timeout_seconds)
timeout == timeout_seconds

\* The clock advances in steps of half a cool-down, so that an elapsed time
\* below, equal to and above the cool-down all occur.
TickStep == timeout \div 2

(***************************************************************************)
(* CircuitBreaker                                                          *)
(***************************************************************************)

\* Faulty variant of CooldownElapsed: the comparison is reversed.
CooldownElapsedReversed(t, lft) == t - lft < timeout

\* line 144: datetime.now() - self.last_failure_time > self.timeout
CooldownElapsed(t, lft) == t - lft > timeout

\* Faulty variant of ShouldOpen: off by one, opens one failure late.
ShouldOpenLate(fc) == fc > failure_threshold

\* line 162: self.failure_count >= self.failure_threshold
ShouldOpen(fc) == fc >= failure_threshold

\* Faulty variant of ShouldClose: off by one, closes one success late.
ShouldCloseLate(sc) == sc > success_threshold

\* line 154: self.success_count >= self.success_threshold
ShouldClose(sc) == sc >= success_threshold

\* __init__, lines 133-139
BreakerInit ==
    /\ state = "closed"
    /\ failure_count = 0
    /\ success_count = 0
    /\ last_failure_time = <<>>          \* None
    /\ bpc = [c \in Callers |-> "idle"]
    /\ admittedIn = [c \in Callers |-> "none"]
    /\ boutcome = [c \in Callers |-> "none"]
    /\ ncalls = 0
    /\ runActive = TRUE
    /\ runLen = 0
    /\ hoSucc = 0

\* Faulty variant of BreakerReject: the rejected call is recorded as a failure time,
\* which extends the cool-down.
BreakerRejectExtendsCooldown(c) ==
    /\ bpc[c] = "idle"
    /\ ncalls < MaxCalls
    /\ state = "open"
    /\ ~CooldownElapsed(now, last_failure_time[1])
    /\ boutcome' = [boutcome EXCEPT ![c] = "Circuit breaker is OPEN"]
    /\ last_failure_time' = <<now>>
    /\ ncalls' = ncalls + 1
    /\ UNCHANGED <<state, failure_count, success_count, now,
                   bpc, admittedIn, runActive, runLen, hoSucc>>
    /\ UNCHANGED otherThanBreaker

\* call(), lines 143-148 with state OPEN and the cool-down not elapsed:
\* raise Exception("Circuit breaker is OPEN"); func is not invoked.
BreakerReject(c) ==
    /\ bpc[c] = "idle"
    /\ ncalls < MaxCalls
    /\ state = "open"
    /\ ~CooldownElapsed(now, last_failure_time[1])
    /\ boutcome' = [boutcome EXCEPT ![c] = "Circuit breaker is OPEN"]
    /\ ncalls' = ncalls + 1
    /\ UNCHANGED <<state, failure_count, success_count, last_failure_time, now,
                   bpc, admittedIn, runActive, runLen, hoSucc>>
    /\ UNCHANGED otherThanBreaker

\* call(), lines 143-146 then 150-151: with state OPEN and the cool-down
\* elapsed the breaker goes HALF_OPEN and success_count is reset; func is
\* invoked and the coroutine suspends in the await.
BreakerTrial(c) ==
    /\ bpc[c] = "idle"
    /\ ncalls < MaxCalls
    /\ state = "open"
    /\ CooldownElapsed(now, last_failure_time[1])
    /\ state' = "half_open"
    /\ success_count' = 0
    /\ hoSucc' = 0
    /\ bpc' = [bpc EXCEPT ![c] = "awaiting"]
    /\ admittedIn' = [admittedIn EXCEPT ![c] = "half_open"]
    /\ boutcome' = [boutcome EXCEPT ![c] = "pending"]
    /\ ncalls' = ncalls + 1
    /\ UNCHANGED <<failure_count, last_failure_time, now, runActive, runLen>>
    /\ UNCHANGED otherThanBreaker

\* call(), lines 143 (state is not OPEN) then 150-151: func is invoked.
BreakerAdmit(c) ==
    /\ bpc[c] = "idle"
    /\ ncalls < MaxCalls
    /\ state # "open"
    /\ bpc' = [bpc EXCEPT ![c] = "awaiting"]
    /\ admittedIn' = [admittedIn EXCEPT ![c] = state]
    /\ boutcome' = [boutcome EXCEPT ![c] = "pending"]
    /\ ncalls' = ncalls + 1
    /\ UNCHANGED <<state, failure_count, success_count, last_failure_time, now,
                   runActive, runLen, hoSucc>>
    /\ UNCHANGED otherThanBreaker

\* Faulty variant of BreakerSuccess: successes are counted in every state, not only
\* in HALF_OPEN.
BreakerSuccessAnyState(c) ==
    /\ bpc[c] = "awaiting"
    /\ IF TRUE
       THEN /\ success_count' = success_count + 1
            /\ hoSucc' = hoSucc + 1
            /\ IF ShouldClose(success_count + 1)
               THEN /\ state' = "closed"
                    /\ failure_count' = 0
               ELSE UNCHANGED <<state, failure_count>>
       ELSE UNCHANGED <<state, failure_count, success_count, hoSucc>>
    /\ bpc' = [bpc EXCEPT ![c] = "idle"]
    /\ admittedIn' = [admittedIn EXCEPT ![c] = "none"]
    /\ boutcome' = [boutcome EXCEPT ![c] = "ok"]
    /\ runActive' = (state' = "closed" /\ failure_count' = 0)
    /\ runLen' = 0
    /\ UNCHANGED <<last_failure_time, now, ncalls>>
    /\ UNCHANGED otherThanBreaker

\* call(), lines 152-157: func returned.
BreakerSuccess(c) ==
    /\ bpc[c] = "awaiting"
    /\ IF state = "half_open"
       THEN /\ success_count' = success_count + 1
            /\ hoSucc' = hoSucc + 1
            /\ IF ShouldClose(success_count + 1)
               THEN /\ state' = "closed"
                    /\ failure_count' = 0
               ELSE UNCHANGED <<state, failure_count>>
       ELSE UNCHANGED <<state, failure_count, success_count, hoSucc>>
    /\ bpc' = [bpc EXCEPT ![c] = "idle"]
    /\ admittedIn' = [admittedIn EXCEPT ![c] = "none"]
    /\ boutcome' = [boutcome EXCEPT ![c] = "ok"]
    /\ runActive' = (state' = "closed" /\ failure_count' = 0)
    /\ runLen' = 0
    /\ UNCHANGED <<last_failure_time, now, ncalls>>
    /\ UNCHANGED otherThanBreaker

\* Faulty variant of BreakerFailure: the increment of failure_count is lost
\* when another call is still in flight.
BreakerFailureLostUpdate(c) ==
    /\ bpc[c] = "awaiting"
    /\ failure_count' = IF \E d \in Callers \ {c} : bpc[d] = "awaiting"
                        THEN failure_count
                        ELSE failure_count + 1
    /\ last_failure_time' = <<now>>
    /\ state' = IF ShouldOpen(failure_count') THEN "open" ELSE state
    /\ bpc' = [bpc EXCEPT ![c] = "idle"]
    /\ admittedIn' = [admittedIn EXCEPT ![c] = "none"]
    /\ boutcome' = [boutcome EXCEPT ![c] = "error"]
    /\ runLen' = IF runActive THEN runLen + 1 ELSE 0
    /\ UNCHANGED <<success_count, now, ncalls, runActive, hoSucc>>
    /\ UNCHANGED otherThanBreaker

\* call(), lines 158-165: func raised; the exception is re-raised.
BreakerFailure(c) ==
    /\ bpc[c] = "awaiting"
    /\ failure_count' = failure_count + 1
    /\ last_failure_time' = <<now>>
    /\ state' = IF ShouldOpen(failure_count + 1) THEN "open" ELSE state
    /\ bpc' = [bpc EXCEPT ![c] = "idle"]
    /\ admittedIn' = [admittedIn EXCEPT ![c] = "none"]
    /\ boutcome' = [boutcome EXCEPT ![c] = "error"]
    /\ runLen' = IF runActive THEN runLen + 1 ELSE 0
    /\ UNCHANGED <<success_count, now, ncalls, runActive, hoSucc>>
    /\ UNCHANGED otherThanBreaker

\* Time passes (half a cool-down).
Tick ==
    /\ now < MaxTicks * TickStep
    /\ now' = now + TickStep
    /\ UNCHANGED bvars
    /\ UNCHANGED otherThanBreaker

BreakerNext ==
    \/ \E c \in Callers : BreakerReject(c)
    \/ \E c \in Callers : BreakerTrial(c)
    \/ \E c \in Callers : BreakerAdmit(c)
    \/ \E c \in Callers : BreakerSuccess(c)
    \/ \E c \in Callers : BreakerFailure(c)
    \/ Tick

(***************************************************************************)
(* CacheService                                                            *)
(***************************************************************************)

\* The `key` arguments and the positional arguments callers pass.
Keys == {"utility_rates"}
Args == {"45424", "80202"}

\* What fetch_func can return.
Values == {"v1", "v2"}

\* timedelta(seconds=ttl_seconds), line 76
ttl == ttl_seconds

\* The clock advances in steps of half a ttl, so that an entry younger than,
\* aged exactly and older than ttl all occur.
CacheTickStep == ttl \div 2

\* _make_key, lines 78-81: the md5 hex digest of the JSON text of key and
\* arguments, modelled as the pair it is computed from (digests of different
\* pairs are taken to differ).
MakeKey(key, args) == <<key, args>>

CacheKeys == {MakeKey(k, a) : k \in Keys, a \in Args}

\* Faulty variant of IsFresh: off by one, an entry aged exactly ttl is still served.
IsFreshInclusive(t, timestamp) == t - timestamp <= ttl

\* line 95: datetime.now() - timestamp < self.ttl
IsFresh(t, timestamp) == t - timestamp < ttl

\* line 93-95: the key is cached and its entry is fresh
CacheValid(ck) == cache[ck] # <<>> /\ IsFresh(now, cache[ck][2])

\* __init__, lines 74-76
CacheInit ==
    /\ cache = [ck \in CacheKeys |-> <<>>]
    /\ cpc = [c \in Callers |-> "idle"]
    /\ ckey = [c \in Callers |-> <<>>]
    /\ coutcome = [c \in Callers |->
                     [kind |-> "none", value |-> "none", fetches |-> 0, stale |-> FALSE]]
    /\ ccalls = 0
    /\ cactor = 0

\* get_or_fetch, lines 91-96: the entry is there and fresh; return cached_data.
CacheHit(c, key, args) ==
    LET ck == MakeKey(key, args) IN
    /\ cpc[c] = "idle"
    /\ ccalls < MaxCacheCalls
    /\ CacheValid(ck)
    /\ ckey' = [ckey EXCEPT ![c] = ck]
    /\ coutcome' = [coutcome EXCEPT ![c] =
                       [kind |-> "hit", value |-> cache[ck][1],
                        fetches |-> 0, stale |-> FALSE]]
    /\ ccalls' = ccalls + 1
    /\ cactor' = c
    /\ UNCHANGED <<cache, cpc, now>>
    /\ UNCHANGED otherThanCache

\* get_or_fetch, lines 91-99: no entry, or a stale one; fetch_func is invoked
\* and the coroutine suspends in the await.
CacheMiss(c, key, args) ==
    LET ck == MakeKey(key, args) IN
    /\ cpc[c] = "idle"
    /\ ccalls < MaxCacheCalls
    /\ ~CacheValid(ck)
    /\ ckey' = [ckey EXCEPT ![c] = ck]
    /\ cpc' = [cpc EXCEPT ![c] = "fetching"]
    /\ coutcome' = [coutcome EXCEPT ![c] =
                       [kind |-> "pending", value |-> "none",
                        fetches |-> 1, stale |-> (cache[ck] # <<>>)]]
    /\ ccalls' = ccalls + 1
    /\ cactor' = c
    /\ UNCHANGED <<cache, now>>
    /\ UNCHANGED otherThanCache

\* get_or_fetch, lines 99-101: fetch_func returned v; store (v, now), return v.
FetchReturns(c, v) ==
    /\ cpc[c] = "fetching"
    /\ cache' = [cache EXCEPT ![ckey[c]] = <<v, now>>]
    /\ cpc' = [cpc EXCEPT ![c] = "idle"]
    /\ coutcome' = [coutcome EXCEPT ![c].kind = "fetched", ![c].value = v]
    /\ UNCHANGED <<ckey, ccalls, cactor, now>>
    /\ UNCHANGED otherThanCache

\* Faulty variant of FetchRaises: the entry of the key is dropped when the fetch
\* raises.
FetchRaisesDropsEntry(c) ==
    /\ cpc[c] = "fetching"
    /\ cpc' = [cpc EXCEPT ![c] = "idle"]
    /\ coutcome' = [coutcome EXCEPT ![c].kind = "error"]
    /\ cache' = [cache EXCEPT ![ckey[c]] = <<>>]
    /\ UNCHANGED <<ckey, ccalls, cactor, now>>
    /\ UNCHANGED otherThanCache

\* get_or_fetch, line 99: fetch_func raised; the exception leaves get_or_fetch
\* and line 100 is not reached.
FetchRaises(c) ==
    /\ cpc[c] = "fetching"
    /\ cpc' = [cpc EXCEPT ![c] = "idle"]
    /\ coutcome' = [coutcome EXCEPT ![c].kind = "error"]
    /\ UNCHANGED <<cache, ckey, ccalls, cactor, now>>
    /\ UNCHANGED otherThanCache

\* Time passes (half a ttl).
CacheTick ==
    /\ now < MaxCacheTicks * CacheTickStep
    /\ now' = now + CacheTickStep
    /\ UNCHANGED cvars
    /\ UNCHANGED otherThanCache

CacheNext ==
    \/ \E c \in Callers, k \in Keys, a \in Args : CacheHit(c, k, a)
    \/ \E c \in Callers, k \in Keys, a \in Args : CacheMiss(c, k, a)
    \/ \E c \in Callers, v \in Values : FetchReturns(c, v)
    \/ \E c \in Callers : FetchRaises(c)
    \/ CacheTick

(***************************************************************************)
(* retry_with_backoff                                                      *)
(***************************************************************************)

\* The kinds of error a provider call raises (spec 6: Timeout, RateLimited,
\* ServerError, Invalid; NetworkError for a failed connection), by what the
\* callee is: an httpx request followed by raise_for_status() and by the
\* validation of its arguments.
ErrorKinds == {"Timeout", "NetworkError", "ServerError", "RateLimited",
               "ClientError", "ValidationError"}

\* The class of the exception raised for each kind.  httpx raises
\* TimeoutException and NetworkError from the transport and one class,
\* HTTPStatusError, for every 4xx and 5xx status (429 and 404 alike);
\* validators raise ValueError.
ExceptionClass(kind) ==
    CASE kind = "Timeout" -> "httpx.TimeoutException"
      [] kind = "NetworkError" -> "httpx.NetworkError"
      [] kind \in {"ServerError", "RateLimited", "ClientError"} -> "httpx.HTTPStatusError"
      [] kind = "ValidationError" -> "ValueError"

\* issubclass(cls, base) among the classes above: httpx.HTTPError is the base
\* class of httpx's transport errors and of HTTPStatusError.
IsSubclass(cls, base) ==
    \/ cls = base
    \/ /\ base = "httpx.HTTPError"
       /\ cls \in {"httpx.TimeoutException", "httpx.NetworkError", "httpx.HTTPStatusError"}

\* line 35: exceptions = (httpx.HTTPError, httpx.TimeoutException)
exceptions == {"httpx.HTTPError", "httpx.TimeoutException"}

\* line 44: `except exceptions as e` catches the error
Caught(kind) == \E base \in exceptions : IsSubclass(ExceptionClass(kind), base)

\* The values of initial_delay callers pass: the default and one that makes
\* the second delay exceed max_delay.
InitialDelays == {initial_delay, 40}

\* Faulty variant of Min: the first argument is returned as it is, so the sleep
\* is not capped at max_delay.
MinUncapped(a, b) == a

\* line 47: min(delay, max_delay)
Min(a, b) == IF a <= b THEN a ELSE b

RetryInit ==
    /\ rpc = "init"
    /\ attempt = 0
    /\ delay = 0
    /\ last_exception = "None"
    /\ r_initial_delay = 0
    /\ rinvocations = 0
    /\ rsleeps = <<>>
    /\ rerrors = <<>>

\* lines 38-43: the locals are set and the first attempt invokes func.
RetryStart(d) ==
    /\ rpc = "init"
    /\ max_retries > 0
    /\ r_initial_delay' = d
    /\ delay' = d
    /\ last_exception' = "None"
    /\ attempt' = 0
    /\ rinvocations' = 1
    /\ rpc' = "awaiting"
    /\ UNCHANGED <<rsleeps, rerrors>>
    /\ UNCHANGED otherThanRetry

\* line 43: func returned; its result is returned.
RetryFuncReturns ==
    /\ rpc = "awaiting"
    /\ rpc' = "returned"
    /\ UNCHANGED <<attempt, delay, last_exception, r_initial_delay,
                   rinvocations, rsleeps, rerrors>>
    /\ UNCHANGED otherThanRetry

\* Faulty variant of RetryFuncRaises: the error of the last attempt is swallowed
\* and retry returns silently.
RetryFuncRaisesSwallowLast(kind) ==
    /\ rpc = "awaiting"
    /\ rerrors' = Append(rerrors, kind)
    /\ IF ~Caught(kind)
       THEN /\ rpc' = "raised"
            /\ UNCHANGED <<last_exception, rsleeps>>
       ELSE /\ last_exception' = kind
            /\ IF attempt < max_retries - 1
               THEN /\ rpc' = "sleeping"
                    /\ rsleeps' = Append(rsleeps, Min(delay, max_delay))
               ELSE /\ rpc' = "returned"
                    /\ UNCHANGED rsleeps
    /\ UNCHANGED <<attempt, delay, r_initial_delay, rinvocations>>
    /\ UNCHANGED otherThanRetry

\* lines 44-50: func raised an error of the given kind.  An exception the
\* except clause does not catch leaves the function; a caught one is recorded
\* and either slept on (line 47) or, on the last attempt, re-raised (line 50).
RetryFuncRaises(kind) ==
    /\ rpc = "awaiting"
    /\ rerrors' = Append(rerrors, kind)
    /\ IF ~Caught(kind)
       THEN /\ rpc' = "raised"
            /\ UNCHANGED <<last_exception, rsleeps>>
       ELSE /\ last_exception' = kind
            /\ IF attempt < max_retries - 1
               THEN /\ rpc' = "sleeping"
                    /\ rsleeps' = Append(rsleeps, Min(delay, max_delay))
               ELSE /\ rpc' = "raised"
                    /\ UNCHANGED rsleeps
    /\ UNCHANGED <<attempt, delay, r_initial_delay, rinvocations>>
    /\ UNCHANGED otherThanRetry

\* lines 47-48, 41-43: the sleep is over; the delay grows and the next
\* attempt invokes func.
RetryWake ==
    /\ rpc = "sleeping"
    /\ delay' = delay * backoff_factor
    /\ attempt' = attempt + 1
    /\ rinvocations' = rinvocations + 1
    /\ rpc' = "awaiting"
    /\ UNCHANGED <<last_exception, r_initial_delay, rsleeps, rerrors>>
    /\ UNCHANGED otherThanRetry

RetryNext ==
    \/ \E d \in InitialDelays : RetryStart(d)
    \/ RetryFuncReturns
    \/ \E kind \in ErrorKinds : RetryFuncRaises(kind)
    \/ RetryWake

(***************************************************************************)
(* Dispatcher.run (spec 4.3, 5) around the per-tool try/except of query()  *)
(***************************************************************************)

\* Registered tool identifiers a sub-question can be routed to.
ToolIds == {"utility_tool", "solar_production_tool"}

\* The request lists a SubQuestion can form: 1..MaxSubQuestions tool ids.
SubQuestionLists ==
    UNION {[1..n -> ToolIds] : n \in 1..MaxSubQuestions}

\* The slot of a sub-question whose tool has not ended.
NoResult ==
    [index |-> 0, tool |-> "none", success |-> FALSE, error |-> "", outcome |-> "none"]

\* The ToolResult of sub-question i whose tool returned.
ToolSuccess(i, tool) ==
    [index |-> i, tool |-> tool, success |-> TRUE, error |-> "", outcome |-> "returned"]

\* query(), lines 288-292 and 296-300: the exception of one tool is caught and
\* turned into a message naming the error; the tool's data stays None.
ToolFailure(i, tool, why) ==
    [index |-> i, tool |-> tool, success |-> FALSE,
     error |-> "Could not get " \o tool \o ": " \o why, outcome |-> why]

DispatchInit ==
    /\ dpc = "idle"
    /\ subqs = <<>>
    /\ tstatus = <<>>
    /\ results = <<>>
    /\ completed = <<>>
    /\ returned = <<>>

\* run(subquestions): every sub-question's tool is invoked concurrently.
Run(qs) ==
    /\ dpc = "idle"
    /\ subqs' = qs
    /\ tstatus' = [i \in 1..Len(qs) |-> "running"]
    /\ results' = [i \in 1..Len(qs) |-> NoResult]
    /\ dpc' = "gathering"
    /\ UNCHANGED <<completed, returned>>
    /\ UNCHANGED otherThanDispatch

\* Faulty variant of Collect: results are kept in order of completion.
CollectInCompletionOrder(rs, done, i, r) == [rs EXCEPT ![Len(done) + 1] = r]

\* The result r of sub-question i is put at index i of the results; done is
\* the sequence of the sub-questions completed before.
Collect(rs, done, i, r) == [rs EXCEPT ![i] = r]

\* The tool of sub-question i returned its answer.
ToolReturns(i) ==
    /\ dpc = "gathering"
    /\ i \in 1..Len(subqs)
    /\ tstatus[i] = "running"
    /\ results' = Collect(results, completed, i, ToolSuccess(i, subqs[i]))
    /\ tstatus' = [tstatus EXCEPT ![i] = "done"]
    /\ completed' = Append(completed, [index |-> i, outcome |-> "returned"])
    /\ UNCHANGED <<dpc, subqs, returned>>
    /\ UNCHANGED otherThanDispatch

\* Faulty variant of ToolRaises: the exception is not caught; it leaves run(), which
\* fails the request and cancels the tools still running.
ToolRaisesUncaught(i) ==
    /\ dpc = "gathering"
    /\ i \in 1..Len(subqs)
    /\ tstatus[i] = "running"
    /\ dpc' = "failed"
    /\ tstatus' = [j \in 1..Len(subqs) |->
                     IF j = i THEN "done"
                     ELSE IF tstatus[j] = "running" THEN "cancelled" ELSE tstatus[j]]
    /\ completed' = Append(completed, [index |-> i, outcome |-> "error"])
    /\ UNCHANGED <<subqs, results, returned>>
    /\ UNCHANGED otherThanDispatch

\* query(), lines 288-292 and 296-300: the tool of sub-question i raised; the
\* except branch absorbs the exception and the request continues with the
\* other tools.
ToolRaises(i) ==
    /\ dpc = "gathering"
    /\ i \in 1..Len(subqs)
    /\ tstatus[i] = "running"
    /\ results' = Collect(results, completed, i, ToolFailure(i, subqs[i], "error"))
    /\ tstatus' = [tstatus EXCEPT ![i] = "done"]
    /\ completed' = Append(completed, [index |-> i, outcome |-> "error"])
    /\ UNCHANGED <<dpc, subqs, returned>>
    /\ UNCHANGED otherThanDispatch

\* Faulty variant of ToolTimesOut: no time budget is enforced; the tool that
\* exceeded it is left running.
ToolTimesOutNotEnforced(i) ==
    /\ dpc = "gathering"
    /\ i \in 1..Len(subqs)
    /\ tstatus[i] = "running"
    /\ UNCHANGED <<dpc, subqs, tstatus, results, completed, returned>>
    /\ UNCHANGED otherThanDispatch

\* The tool of sub-question i exceeded the per-request time budget: it is
\* cut off and treated as a timeout.
ToolTimesOut(i) ==
    /\ dpc = "gathering"
    /\ i \in 1..Len(subqs)
    /\ tstatus[i] = "running"
    /\ results' = Collect(results, completed, i, ToolFailure(i, subqs[i], "timeout"))
    /\ tstatus' = [tstatus EXCEPT ![i] = "done"]
    /\ completed' = Append(completed, [index |-> i, outcome |-> "timeout"])
    /\ UNCHANGED <<dpc, subqs, returned>>
    /\ UNCHANGED otherThanDispatch

\* Every invocation has ended: run() returns the results.
Gather ==
    /\ dpc = "gathering"
    /\ \A i \in 1..Len(subqs) : tstatus[i] = "done"
    /\ returned' = results
    /\ dpc' = "returned"
    /\ UNCHANGED <<subqs, tstatus, results, completed>>
    /\ UNCHANGED otherThanDispatch

DispatchNext ==
    \/ \E qs \in SubQuestionLists : Run(qs)
    \/ \E i \in 1..MaxSubQuestions : ToolReturns(i)
    \/ \E i \in 1..MaxSubQuestions : ToolRaises(i)
    \/ \E i \in 1..MaxSubQuestions : ToolTimesOut(i)
    \/ Gather

(***************************************************************************)
(* Input validation (part_003 184-207, IMPLEMENTATION_SUMMARY 97-103) and   *)
(* the handler of one streamed request (spec 6, 7, 9)                       *)
(***************************************************************************)

\* A string is the sequence of its characters.
Digits == {"0", "1", "2", "3", "4", "5", "6", "7", "8", "9"}

\* The zip_code values tried: well-formed, too short, too long, with a
\* letter, and five digits followed by a line feed.
ZipCodes ==
    { <<"8", "0", "2", "0", "2">>,
      <<"8", "0", "2", "0">>,
      <<"8", "0", "2", "0", "2", "1">>,
      <<"8", "0", "2", "0", "a">>,
      <<"8", "0", "2", "0", "2", "\n">> }

\* The lengths of the questions tried.
QuestionLengths ==
    {0, min_question_length - 1, min_question_length, max_question_length,
     max_question_length + 1}

\* validate_zip_code, part_003 186-188: re.match(r'^\d{5}$', zip_code).
\* `^` anchors at the start, `\d{5}` takes five digits, and Python's `$`
\* matches at the end of the string and also just before a line feed that
\* ends the string.
validate_zip_code(zip_code) ==
    /\ Len(zip_code) >= 5
    /\ \A i \in 1..5 : zip_code[i] \in Digits
    /\ \/ Len(zip_code) = 5
       \/ Len(zip_code) = 6 /\ zip_code[6] = "\n"

\* "Questions: 3-2000 characters" (IMPLEMENTATION_SUMMARY 101).
validate_question(question_len) ==
    /\ question_len >= min_question_length
    /\ question_len <= max_question_length

\* validate_query_inputs(question, zip_code, ...) of IMPLEMENTATION_SUMMARY
\* 107-115; zip_code is optional in the request (rag-query-form.tsx 125).
validate_query_inputs(req) ==
    /\ validate_question(req.question_len)
    /\ req.zip_given => validate_zip_code(req.zip_code)

Requests ==
    [question_len : QuestionLengths, zip_given : {TRUE}, zip_code : ZipCodes]
    \cup [question_len : QuestionLengths, zip_given : {FALSE},
          zip_code : {<<>>}]

NoRequest == [question_len |-> 0, zip_given |-> FALSE, zip_code |-> <<>>]

\* The status stages, in the order of the emitter (spec 6, 9).
Stages == <<"analyzing", "searching", "retrieving", "generating",
            "finalizing">>

StageSet == {Stages[i] : i \in 1..Len(Stages)}

\* The stage names the backend writes in status events, in order
\* (PROJECT_DOCUMENTATION 656); they are the four the client tells apart
\* (rag-query-form.tsx 173-178).
status_stages == <<"analyzing", "searching", "retrieving", "synthesizing">>

Event(type, detail) == [type |-> type, detail |-> detail]

\* The tool a sub-question of the streamed request is routed to.
ToolOf(i) == IF i % 2 = 1 THEN "utility_tool" ELSE "solar_production_tool"

\* Faulty variant of Writable: the handler keeps writing after the terminal
\* event.
WritableAfterClose(p) == p \in StageSet \cup {"closed"}

\* The handler writes to the stream from the first stage until the terminal
\* event.
Writable(p) == p \in StageSet

AllFailed(ts) == \A i \in 1..Len(ts) : ts[i] = "failed"

\* Faulty variant of Terminal: a request all of whose tools failed ends with
\* an error event.
TerminalErrorOnFatal(ts) ==
    IF AllFailed(ts) THEN Event("error", "no data") ELSE Event("done", "answer")

\* Spec 7, Fatal: when every tool failed the answer is the apology, still a
\* done event.
Terminal(ts) ==
    IF AllFailed(ts) THEN Event("done", "apology") ELSE Event("done", "answer")

StreamInit ==
    /\ spc = "idle"
    /\ request = NoRequest
    /\ events = <<>>
    /\ s_tools = <<>>
    /\ nchunks = 0

\* A request arrives.
Submit(req) ==
    /\ spc = "idle"
    /\ spc' = "validating"
    /\ request' = req
    /\ UNCHANGED <<events, s_tools, nchunks>>
    /\ UNCHANGED <<state, failure_count, last_failure_time, cache>>
    /\ UNCHANGED otherThanStream

\* if not is_valid: return {"error": error} (IMPLEMENTATION_SUMMARY 113-114);
\* spec 7, ValidationError: rejected before dispatch.
Reject ==
    /\ spc = "validating"
    /\ ~validate_query_inputs(request)
    /\ events' = Append(events, Event("error", "validation"))
    /\ spc' = "closed"
    /\ UNCHANGED <<request, s_tools, nchunks>>
    /\ UNCHANGED <<state, failure_count, last_failure_time, cache>>
    /\ UNCHANGED otherThanStream

\* The inputs are valid: the first stage.
Analyze ==
    /\ spc = "validating"
    /\ validate_query_inputs(request)
    /\ events' = Append(events, Event("status", "analyzing"))
    /\ spc' = "analyzing"
    /\ UNCHANGED <<request, s_tools, nchunks>>
    /\ UNCHANGED <<state, failure_count, last_failure_time, cache>>
    /\ UNCHANGED otherThanStream

\* The question is decomposed into n sub-questions and dispatch begins.
Dispatch(n) ==
    /\ spc = "analyzing"
    /\ events' = Append(events, Event("status", "searching"))
    /\ s_tools' = [i \in 1..n |-> "pending"]
    /\ spc' = "searching"
    /\ UNCHANGED <<request, nchunks>>
    /\ UNCHANGED <<state, failure_count, last_failure_time, cache>>
    /\ UNCHANGED otherThanStream

\* tool {tool_name}: notification that a tool has been invoked (spec 6).
ToolInvoked(i) ==
    /\ spc = "searching"
    /\ i \in 1..Len(s_tools)
    /\ s_tools[i] = "pending"
    /\ s_tools' = [s_tools EXCEPT ![i] = "running"]
    /\ events' = Append(events, Event("tool", ToolOf(i)))
    /\ UNCHANGED <<spc, request, nchunks>>
    /\ UNCHANGED <<state, failure_count, last_failure_time, cache>>
    /\ UNCHANGED otherThanStream

\* The tool's provider call returned: get_or_fetch stores the result
\* (part_003 99-101).
ToolSucceeded(i) ==
    /\ spc = "searching"
    /\ i \in 1..Len(s_tools)
    /\ s_tools[i] = "running"
    /\ s_tools' = [s_tools EXCEPT ![i] = "ok"]
    /\ cache' = [cache EXCEPT ![MakeKey("utility_rates", "80202")] =
                                  <<"v1", now>>]
    /\ UNCHANGED <<spc, request, events, nchunks>>
    /\ UNCHANGED <<state, failure_count, last_failure_time>>
    /\ UNCHANGED otherThanStream

\* The tool's provider call raised: the breaker counts the failure
\* (part_003 158-164) and the tool's result records it (spec 7, ToolFailure).
ToolFailed(i) ==
    /\ spc = "searching"
    /\ i \in 1..Len(s_tools)
    /\ s_tools[i] = "running"
    /\ s_tools' = [s_tools EXCEPT ![i] = "failed"]
    /\ failure_count' = failure_count + 1
    /\ last_failure_time' = <<now>>
    /\ state' = IF ShouldOpen(failure_count + 1) THEN "open" ELSE state
    /\ UNCHANGED <<spc, request, events, nchunks>>
    /\ UNCHANGED cache
    /\ UNCHANGED otherThanStream

\* Every tool has ended: the next stage.
Retrieve ==
    /\ spc = "searching"
    /\ \A i \in 1..Len(s_tools) : s_tools[i] \in {"ok", "failed"}
    /\ events' = Append(events, Event("status", "retrieving"))
    /\ spc' = "retrieving"
    /\ UNCHANGED <<request, s_tools, nchunks>>
    /\ UNCHANGED <<state, failure_count, last_failure_time, cache>>
    /\ UNCHANGED otherThanStream

\* The answer is generated: the backend's name of this stage is synthesizing.
Generate ==
    /\ spc = "retrieving"
    /\ events' = Append(events, Event("status", status_stages[4]))
    /\ spc' = "generating"
    /\ UNCHANGED <<request, s_tools, nchunks>>
    /\ UNCHANGED <<state, failure_count, last_failure_time, cache>>
    /\ UNCHANGED otherThanStream

\* chunk {text}: incremental answer text (spec 6).
Chunk ==
    /\ spc = "generating"
    /\ nchunks < MaxChunks
    /\ events' = Append(events, Event("chunk", "text"))
    /\ nchunks' = nchunks + 1
    /\ UNCHANGED <<spc, request, s_tools>>
    /\ UNCHANGED <<state, failure_count, last_failure_time, cache>>
    /\ UNCHANGED otherThanStream

\* The final response is put together; the backend has no status stage for
\* it and writes no event.
Finalize ==
    /\ spc = "generating"
    /\ spc' = "finalizing"
    /\ UNCHANGED <<request, events, s_tools, nchunks>>
    /\ UNCHANGED <<state, failure_count, last_failure_time, cache>>
    /\ UNCHANGED otherThanStream

\* The terminal event of a request that went through every stage.
Done ==
    /\ spc = "finalizing"
    /\ events' = Append(events, Terminal(s_tools))
    /\ spc' = "closed"
    /\ UNCHANGED <<request, s_tools, nchunks>>
    /\ UNCHANGED <<state, failure_count, last_failure_time, cache>>
    /\ UNCHANGED otherThanStream

\* An unexpected internal fault ends the stream from any stage (spec 7).
InternalFault ==
    /\ Writable(spc)
    /\ events' = Append(events, Event("error", "internal"))
    /\ spc' = "closed"
    /\ UNCHANGED <<request, s_tools, nchunks>>
    /\ UNCHANGED <<state, failure_count, last_failure_time, cache>>
    /\ UNCHANGED otherThanStream

StreamNext ==
    \/ \E req \in Requests : Submit(req)
    \/ Reject
    \/ Analyze
    \/ \E n \in 1..MaxSubQuestions : Dispatch(n)
    \/ \E i \in 1..MaxSubQuestions : ToolInvoked(i)
    \/ \E i \in 1..MaxSubQuestions : ToolSucceeded(i)
    \/ \E i \in 1..MaxSubQuestions : ToolFailed(i)
    \/ Retrieve
    \/ Generate
    \/ Chunk
    \/ Finalize
    \/ Done
    \/ InternalFault

(***************************************************************************)
(* Tool Name Resolver (spec 4.2) and Query Decomposer (spec 4.1,            *)
(* PARALLEL_SCENARIO 9-36)                                                  *)
(***************************************************************************)

AllSeqs(S, n) == UNION {[1..k -> S] : k \in 0..n}

\* Tool names are strings over a small alphabet: two letters of the
\* identifiers, a letter of neither, an upper-case letter, the identifiers'
\* punctuation and white space.
NameChars == {"o", "g", "t", "O", "_", " "}

ToolNames == AllSeqs(NameChars, MaxNameLen)

\* The Tool Registry's identifiers, in registration order: the optimizer tool
\* and the general-purpose tool.
optimization_tool == <<"o", "_", "t">>
general_tool == <<"g", "_", "t">>

RegistryOrder == <<optimization_tool, general_tool>>

Registered == {RegistryOrder[i] : i \in 1..Len(RegistryOrder)}

\* The designated fallback tool, which is also the Decomposer's default
\* general-purpose tool.
FallbackTool == general_tool

Lower(ch) == IF ch = "O" THEN "o" ELSE ch

NotSpace(ch) == ch # " "

NotPunctuation(ch) == ch # "_"

\* Case/whitespace-normalised form of a name.
Normalize(name) ==
    SelectSeq([i \in 1..Len(name) |-> Lower(name[i])], NotSpace)

\* The alias table: lower-cased, punctuation-stripped known mis-namings.
AliasTable ==
    [key \in {<<"o", "t">>, <<"g", "t">>} |->
        IF key = <<"o", "t">> THEN optimization_tool ELSE general_tool]

IsSubstring(x, y) ==
    /\ x # <<>>
    /\ \E i \in 0..(Len(y) - Len(x)) : SubSeq(y, i + 1, i + Len(x)) = x

\* The name and identifier r match by prefix/substring.
SubstringMatch(n, r) == IsSubstring(n, r) \/ IsSubstring(r, n)

\* The first identifier, in registration order, that n matches.
FirstMatch(n) ==
    RegistryOrder[CHOOSE i \in 1..Len(RegistryOrder) :
                    /\ SubstringMatch(n, RegistryOrder[i])
                    /\ \A j \in 1..(i - 1) : ~SubstringMatch(n, RegistryOrder[j])]

\* Faulty variant of Fallback: an unmatched name is passed through.
FallbackPassThrough(name) == name

\* No match: the designated fallback tool.
Fallback(name) == FallbackTool

\* Spec 4.2: exact match, then case/whitespace-normalised match, then the
\* alias table, then prefix/substring match, else the fallback tool.
ResolveToolName(name) ==
    IF name \in Registered THEN name
    ELSE LET n == Normalize(name)
             key == SelectSeq(n, NotPunctuation)
         IN  IF n \in Registered THEN n
             ELSE IF key \in DOMAIN AliasTable THEN AliasTable[key]
             ELSE IF \E r \in Registered : SubstringMatch(n, r)
                  THEN FirstMatch(n)
             ELSE Fallback(name)

\* A completion is a sequence of tokens: the markdown fence, the brackets
\* and comma of a JSON array, well-formed {sub_question, tool_name} items
\* and anything else ("x").
\* Items: P and L are the two sub-questions of PARALLEL_SCENARIO 13-21, S a
\* sizing sub-question, U a sizing sub-question with a mis-cased,
\* unpunctuated tool name.
ItemTokens == {"P", "L", "S", "U"}

Tokens == {"fence", "[", "]", ",", "x"} \cup ItemTokens

ItemOf(tok) ==
    CASE tok = "P" ->
           [sub_question |-> "optimal size and NPV with purchase financing (0% ITC)?",
            tool_name |-> optimization_tool, tag |-> "purchase"]
      [] tok = "L" ->
           [sub_question |-> "optimal size and NPV with lease financing (30% ITC)?",
            tool_name |-> optimization_tool, tag |-> "lease"]
      [] tok = "S" ->
           [sub_question |-> "optimal solar size?",
            tool_name |-> optimization_tool, tag |-> "none"]
      [] tok = "U" ->
           [sub_question |-> "optimal solar size?",
            tool_name |-> <<"O", "t">>, tag |-> "none"]

\* The completions tried: every token sequence up to MaxTokens, and longer
\* ones: the two-item array of PARALLEL_SCENARIO 67-80 as it is, fenced, with
\* a trailing comma, truncated, with a broken second item and in prose.
Completions ==
    AllSeqs(Tokens, MaxTokens) \cup
    { <<"[", "P", ",", "L", "]">>,
      <<"fence", "[", "P", ",", "L", "]", "fence">>,
      <<"[", "P", ",", "L", ",", "]">>,
      <<"[", "P", ",", "L">>,
      <<"[", "P", ",", "x", "]">>,
      <<"x", "[", "P", ",", "L", "]", "x">>,
      <<"[", "S", ",", "U", "]">>,
      <<"[", "L", ",", "P", "]">> }

\* The questions of PARALLEL_SCENARIO 138-150.
RoiQuestion == "What is the ROI for solar in zip 80202 in 2026?"
SizingQuestion == "Optimal solar size for zip 80202?"

Questions == {RoiQuestion, SizingQuestion}

NotFence(tok) == tok # "fence"

\* Tolerant parse: the items at the head of toks, separated by commas; a
\* comma followed by no item (trailing comma) and whatever follows the last
\* item read (truncation, a malformed item) are dropped.
RECURSIVE ReadItems(_, _)
ReadItems(toks, expectItem) ==
    IF toks = <<>> THEN <<>>
    ELSE IF expectItem
         THEN IF Head(toks) \in ItemTokens
              THEN <<Head(toks)>> \o ReadItems(Tail(toks), FALSE)
              ELSE <<>>
         ELSE IF Head(toks) = ","
              THEN ReadItems(Tail(toks), TRUE)
              ELSE <<>>

\* The tokens after the first opening bracket, or none.
RECURSIVE AfterFirstBracket(_)
AfterFirstBracket(toks) ==
    IF toks = <<>> THEN <<>>
    ELSE IF Head(toks) = "[" THEN Tail(toks)
    ELSE AfterFirstBracket(Tail(toks))

\* Spec 4.1: strip markdown fencing, fix trailing commas, extract the first
\* JSON array (or its valid prefix).
Recover(text) == ReadItems(AfterFirstBracket(SelectSeq(text, NotFence)), TRUE)

SubQuestion(text, tool, tag) == [sub_question |-> text, tool |-> tool, tag |-> tag]

\* Faulty variant of FallbackSubQuestions: nothing recovered, nothing
\* returned.
NoFallback(q) == <<>>

\* Spec 4.1: a single SubQuestion equal to the whole question routed to the
\* default general-purpose tool.
FallbackSubQuestions(q) == <<SubQuestion(q, FallbackTool, "none")>>

\* Faulty variant of Draft: every item is tagged purchase.
DraftAllPurchase(tok) ==
    SubQuestion(ItemOf(tok).sub_question, ResolveToolName(ItemOf(tok).tool_name),
                "purchase")

\* The SubQuestion of an item: its text and tag, its tool name resolved.
Draft(tok) ==
    SubQuestion(ItemOf(tok).sub_question, ResolveToolName(ItemOf(tok).tool_name),
                ItemOf(tok).tag)

\* The Decomposer: the sub-questions recovered from the completion, in
\* order, or the fallback.  The rule for ROI questions is part of the prompt
\* (PARALLEL_SCENARIO 25-36); nothing is added to what the completion holds.
Decompose(q, text) ==
    LET items == Recover(text)
    IN  IF items = <<>> THEN FallbackSubQuestions(q)
        ELSE [i \in 1..Len(items) |-> Draft(items[i])]

DecomposeInit ==
    /\ qpc = "idle"
    /\ question = ""
    /\ completion = <<>>
    /\ sub_questions = <<>>
    /\ tool_name = <<>>
    /\ resolved = <<>>

\* The Decomposer is called with q and the model completes with text.
DecomposeQuestion(q, text) ==
    /\ qpc = "idle"
    /\ qpc' = "decomposed"
    /\ question' = q
    /\ completion' = text
    /\ sub_questions' = Decompose(q, text)
    /\ UNCHANGED <<tool_name, resolved>>
    /\ UNCHANGED otherThanDecompose

\* The Resolver is called with name.
ResolveName(name) ==
    /\ qpc = "idle"
    /\ qpc' = "resolved"
    /\ tool_name' = name
    /\ resolved' = ResolveToolName(name)
    /\ UNCHANGED <<question, completion, sub_questions>>
    /\ UNCHANGED otherThanDecompose

DecomposeNext ==
    \/ \E q \in Questions, text \in Completions : DecomposeQuestion(q, text)
    \/ \E name \in ToolNames : ResolveName(name)

(***************************************************************************)
(* Financial scenarios: keyword detection of the optimization bundle        *)
(* (PARALLEL_SCENARIO 54-59, part_015 94-96), the ITC rules (part_015       *)
(* 55-67, SCENARIO_BRANCHING 233-243) and run_reopt_scenario_branching      *)
(* (SCENARIO_BRANCHING 99-105)                                              *)
(***************************************************************************)

\* str.lower(): the letters and what they are turned into.
UpperLetters ==
    <<"A", "B", "C", "D", "E", "F", "G", "H", "I", "J", "K", "L", "M",
      "N", "O", "P", "Q", "R", "S", "T", "U", "V", "W", "X", "Y", "Z">>

LowerLetters ==
    <<"a", "b", "c", "d", "e", "f", "g", "h", "i", "j", "k", "l", "m",
      "n", "o", "p", "q", "r", "s", "t", "u", "v", "w", "x", "y", "z">>

LowerChar(ch) ==
    IF \E i \in 1..Len(UpperLetters) : UpperLetters[i] = ch
    THEN LowerLetters[CHOOSE i \in 1..Len(UpperLetters) : UpperLetters[i] = ch]
    ELSE ch

lower(text) == [i \in 1..Len(text) |-> LowerChar(text[i])]

\* part_015 94-95.
business_keywords ==
    { <<"b", "u", "s", "i", "n", "e", "s", "s">>,
      <<"c", "o", "m", "m", "e", "r", "c", "i", "a", "l">>,
      <<"i", "n", "d", "u", "s", "t", "r", "i", "a", "l">>,
      <<"c", "o", "m", "p", "a", "n", "y">>,
      <<"c", "o", "r", "p", "o", "r", "a", "t", "i", "o", "n">>,
      <<"c", "o", "r", "p">>,
      <<"l", "l", "c">>,
      <<"e", "n", "t", "e", "r", "p", "r", "i", "s", "e">>,
      <<"f", "a", "c", "i", "l", "i", "t", "y">>,
      <<"w", "a", "r", "e", "h", "o", "u", "s", "e">>,
      <<"o", "f", "f", "i", "c", "e">>,
      <<"r", "e", "t", "a", "i", "l">>,
      <<"s", "t", "o", "r", "e">>,
      <<"s", "h", "o", "p">>,
      <<"r", "e", "s", "t", "a", "u", "r", "a", "n", "t">> }

\* PARALLEL_SCENARIO 58.
purchase_keywords ==
    { <<"p", "u", "r", "c", "h", "a", "s", "e">>,
      <<"b", "u", "y">>,
      <<"b", "u", "y", "i", "n", "g">>,
      <<"p", "u", "r", "c", "h", "a", "s", "i", "n", "g">>,
      <<"0", "%", " ", "i", "t", "c">>,
      <<"z", "e", "r", "o", " ", "i", "t", "c">> }

\* PARALLEL_SCENARIO 59.
lease_keywords ==
    { <<"l", "e", "a", "s", "e">>,
      <<"l", "e", "a", "s", "i", "n", "g">>,
      <<"l", "e", "a", "s", "e", "d">>,
      <<"p", "p", "a">>,
      <<"3", "0", "%", " ", "i", "t", "c">>,
      <<"t", "h", "i", "r", "t", "y", " ", "p", "e", "r", "c", "e", "n", "t",
        " ", "i", "t", "c">> }

\* `keyword in query_lower` for some keyword of the list.
ContainsAny(query_lower, keywords) ==
    \E kw \in keywords : IsSubstring(kw, query_lower)

\* The property type of a query: business keywords make it commercial.
detect_property_type(query) ==
    IF ContainsAny(lower(query), business_keywords) THEN "commercial"
    ELSE "residential"

\* The ownership types the detection can give for a query: that of the list
\* one of whose keywords the query holds, "none" when it holds none, and
\* either of the two when it holds keywords of both lists (the lists come
\* without an order of precedence).
detect_ownership(query) ==
    LET has_purchase == ContainsAny(lower(query), purchase_keywords)
        has_lease == ContainsAny(lower(query), lease_keywords)
    IN  IF has_purchase /\ has_lease THEN {"purchase", "lease"}
        ELSE IF has_purchase THEN {"purchase"}
        ELSE IF has_lease THEN {"lease"}
        ELSE {"none"}

\* The sub-questions of PARALLEL_SCENARIO 14 and 19, from "with" on.
PurchaseSubQuestion ==
    <<"w", "i", "t", "h", " ", "p", "u", "r", "c", "h", "a", "s", "e", " ",
        "f", "i", "n", "a", "n", "c", "i", "n", "g", " ", "(", "0", "%", " ",
        "I", "T", "C", ")", "?">>

LeaseSubQuestion ==
    <<"w", "i", "t", "h", " ", "l", "e", "a", "s", "e", " ", "f", "i", "n",
        "a", "n", "c", "i", "n", "g", " ", "(", "3", "0", "%", " ", "I", "T",
        "C", ")", "?">>

\* A residential question that names no ownership, and a commercial one.
ResidentialQuery ==
    <<"R", "O", "I", " ", "f", "o", "r", " ", "s", "o", "l", "a", "r", " ",
        "i", "n", " ", "z", "i", "p", " ", "8", "0", "2", "0", "2", "?">>

CommercialQuery ==
    <<"s", "o", "l", "a", "r", " ", "f", "o", "r", " ", "m", "y", " ", "w",
        "a", "r", "e", "h", "o", "u", "s", "e">>

OptimizerQueries ==
    {PurchaseSubQuestion, LeaseSubQuestion, ResidentialQuery, CommercialQuery}

\* Dates as YYYYMMDD: the day before the cutoff, the cutoff, the day after.
Dates == {cutoff_date - 1, cutoff_date, cutoff_date + 1}

\* Faulty variant of fed_itc_fraction: the lease is not looked at.
fed_itc_fraction_by_property(property_type, ownership_type) ==
    IF property_type = "residential" THEN 0 ELSE 30

\* part_015 56-62, in percent.
fed_itc_fraction(property_type, ownership_type) ==
    IF property_type = "residential" /\ ownership_type = "purchase" THEN 0
    ELSE IF ownership_type = "lease"
            \/ property_type \in {"commercial", "industrial"} THEN 30
    ELSE 0

\* GlobalSettings.federal_tax_credit_rate, SCENARIO_BRANCHING 235-242, in
\* percent; settings holds property_type, ownership_type and
\* construction_start_date.
federal_tax_credit_rate(settings) ==
    IF settings.property_type = "residential"
       /\ settings.ownership_type = "purchase" THEN 0
    ELSE IF settings.property_type = "residential"
            /\ settings.ownership_type = "lease" THEN 30
    ELSE 30

\* Faulty variant of GlobalSettings: an ownership type that is not given is stored
\* as it is, without the default.
GlobalSettingsNoDefault(property_type, ownership_type, start_date) ==
    [property_type |-> property_type,
     ownership_type |-> ownership_type,
     construction_start_date |-> start_date]

\* GlobalSettings with the defaults of SCENARIO_BRANCHING 400-401 for what is
\* not given.
GlobalSettings(property_type, ownership_type, start_date) ==
    [property_type |-> property_type,
     ownership_type |-> IF ownership_type = "none" THEN "purchase"
                        ELSE ownership_type,
     construction_start_date |-> start_date]

\* settings.get_financial_params(...), SCENARIO_BRANCHING 319-325, 330-332.
get_financial_params(property_type, ownership_type, start_date) ==
    LET settings == GlobalSettings(property_type, ownership_type, start_date)
    IN  [federal_tax_credit_rate |-> federal_tax_credit_rate(settings),
         analysis_years |-> IF property_type = "residential" THEN 25 ELSE 20]

\* _build_payload: the financial section is taken from GlobalSettings, then
\* part_015 64-66 set analysis_years and federal_tax_credit_rate.
build_payload(property_type, ownership_type, start_date) ==
    LET financial_params ==
            get_financial_params(property_type, ownership_type, start_date)
    IN  [property_type |-> property_type,
         ownership_type |-> ownership_type,
         analysis_years |-> 25,
         federal_tax_credit_rate |->
             fed_itc_fraction(property_type, ownership_type)]

\* Faulty variant of Scenario: the rate reported is the full rate.
ScenarioFullRate(payload, npv) ==
    [property_type |-> payload.property_type,
     ownership_type |-> payload.ownership_type,
     fed_itc_fraction |-> 30,
     analysis_years |-> payload.analysis_years,
     npv |-> npv]

\* The scenario reported for a payload and the NPV of the API's reply
\* (SCENARIO_BRANCHING 42-63).
Scenario(payload, npv) ==
    [property_type |-> payload.property_type,
     ownership_type |-> payload.ownership_type,
     fed_itc_fraction |-> payload.federal_tax_credit_rate,
     analysis_years |-> payload.analysis_years,
     npv |-> npv]

\* Faulty variant of NpvDifference: purchase minus lease.
NpvDifferenceReversed(scenario_a, scenario_b) == scenario_a.npv - scenario_b.npv

\* "NPV Difference (Lease - Purchase)", SCENARIO_BRANCHING 167.
NpvDifference(scenario_a, scenario_b) == scenario_b.npv - scenario_a.npv

\* _extract_results, part_015 73-80: the policy_warning of a result, by the
\* property type and date.today(); "None" when none is generated.  The
\* construction start date is not an input of _extract_results.
policy_warning(property_type, current_date) ==
    IF property_type \in {"commercial", "industrial"} /\ current_date < cutoff_date
    THEN "NOTE: You must commence construction by July 4, 2026, to lock in this 30% credit."
    ELSE "None"

NPVs == 0..MaxNPV

NoScenarioResult ==
    [scenario_type |-> "none", scenarios |-> <<>>, compared |-> FALSE,
     npv_difference |-> 0, policy_warning |-> "None"]

ScenarioInit ==
    /\ fpc = "idle"
    /\ ftext = <<>>
    /\ f_property_type = "none"
    /\ f_ownership_type = "none"
    /\ today = cutoff_date
    /\ construction_start_date = cutoff_date
    /\ payloads = <<>>
    /\ scenarios = <<>>
    /\ fresult = NoScenarioResult

\* _aquery: the bundle extracts property_type and ownership_type from the
\* query string (SCENARIO_BRANCHING 303-311, PARALLEL_SCENARIO 119-122).
Detect(query, d, start_date, ownership) ==
    /\ fpc = "idle"
    /\ ownership \in detect_ownership(query)
    /\ fpc' = "detected"
    /\ ftext' = query
    /\ f_property_type' = detect_property_type(query)
    /\ f_ownership_type' = ownership
    /\ today' = d
    /\ construction_start_date' = start_date
    /\ UNCHANGED <<payloads, scenarios, fresult>>
    /\ UNCHANGED otherThanScenario

\* run_reopt_scenario_branching, residential: the first of the two
\* run_reopt_optimization calls, Purchase (SCENARIO_BRANCHING 101-103).
BranchPurchase ==
    /\ fpc = "detected"
    /\ f_property_type = "residential"
    /\ f_ownership_type = "none"
    /\ payloads' = Append(payloads, build_payload("residential", "purchase",
                                                  construction_start_date))
    /\ fpc' = "purchase_call"
    /\ UNCHANGED <<ftext, f_property_type, f_ownership_type, today,
                   construction_start_date, scenarios, fresult>>
    /\ UNCHANGED otherThanScenario

\* The Purchase call returned; the second call, Lease, follows: the two run
\* sequentially (SCENARIO_BRANCHING 212).
BranchLease(npv) ==
    /\ fpc = "purchase_call"
    /\ scenarios' = Append(scenarios, Scenario(payloads[Len(payloads)], npv))
    /\ payloads' = Append(payloads, build_payload("residential", "lease",
                                                  construction_start_date))
    /\ fpc' = "lease_call"
    /\ UNCHANGED <<ftext, f_property_type, f_ownership_type, today,
                   construction_start_date, fresult>>
    /\ UNCHANGED otherThanScenario

\* The Lease call returned: both scenarios and their NPV difference
\* (SCENARIO_BRANCHING 42-63, 164-168).
BranchReturn(npv) ==
    /\ fpc = "lease_call"
    /\ LET scenario_a == scenarios[1]
           scenario_b == Scenario(payloads[Len(payloads)], npv)
       IN  /\ scenarios' = Append(scenarios, scenario_b)
           /\ fresult' = [scenario_type |-> "residential",
                          scenarios |-> <<scenario_a, scenario_b>>,
                          compared |-> TRUE,
                          npv_difference |-> NpvDifference(scenario_a, scenario_b),
                          policy_warning |-> policy_warning("residential", today)]
    /\ fpc' = "returned"
    /\ UNCHANGED <<ftext, f_property_type, f_ownership_type, today,
                   construction_start_date, payloads>>
    /\ UNCHANGED otherThanScenario

\* A commercial query, or a residential one whose ownership was detected:
\* a single run_reopt_optimization call (SCENARIO_BRANCHING 104, 213;
\* PARALLEL_SCENARIO 119-122).
SingleCall ==
    /\ fpc = "detected"
    /\ f_property_type # "residential" \/ f_ownership_type # "none"
    /\ payloads' = Append(payloads, build_payload(f_property_type,
                                                  f_ownership_type,
                                                  construction_start_date))
    /\ fpc' = "single_call"
    /\ UNCHANGED <<ftext, f_property_type, f_ownership_type, today,
                   construction_start_date, scenarios, fresult>>
    /\ UNCHANGED otherThanScenario

\* The single call returned (SCENARIO_BRANCHING 66-80).
SingleReturn(npv) ==
    /\ fpc = "single_call"
    /\ LET scenario == Scenario(payloads[Len(payloads)], npv)
       IN  /\ scenarios' = Append(scenarios, scenario)
           /\ fresult' = [scenario_type |-> f_property_type,
                          scenarios |-> <<scenario>>,
                          compared |-> FALSE,
                          npv_difference |-> 0,
                          policy_warning |-> policy_warning(f_property_type, today)]
    /\ fpc' = "returned"
    /\ UNCHANGED <<ftext, f_property_type, f_ownership_type, today,
                   construction_start_date, payloads>>
    /\ UNCHANGED otherThanScenario

ScenarioNext ==
    \/ \E query \in OptimizerQueries, d \in Dates, start_date \in Dates,
          ownership \in {"purchase", "lease", "none"} :
            Detect(query, d, start_date, ownership)
    \/ BranchPurchase
    \/ \E npv \in NPVs : BranchLease(npv)
    \/ \E npv \in NPVs : BranchReturn(npv)
    \/ SingleCall
    \/ \E npv \in NPVs : SingleReturn(npv)

(***************************************************************************)
(* Parallel scenario: the purchase and the lease optimization_tool calls   *)
(* of one question run concurrently (PARALLEL_SCENARIO 9-21, 82-84)        *)
(***************************************************************************)

\* The two calls, named by the ownership_type parameter each is made with.
Branches == {"purchase", "lease"}

\* The slot of a branch that has no payload, and none that has no result.
NoPayload ==
    [property_type |-> "none", ownership_type |-> "none",
     analysis_years |-> 0, federal_tax_credit_rate |-> 0]

NoBranchResult ==
    [property_type |-> "none", ownership_type |-> "none",
     fed_itc_fraction |-> 0, analysis_years |-> 0, npv |-> 0]

\* GlobalSettings before any call: the defaults, no construction start date
\* (written 0).
ParallelInit ==
    /\ ppc = [b \in Branches |-> "idle"]
    /\ global_settings = GlobalSettings("residential", "none", 0)
    /\ local_payload = [b \in Branches |-> NoPayload]
    /\ posted = [b \in Branches |-> NoPayload]
    /\ settings_at_post = [b \in Branches |-> "none"]
    /\ presults = [b \in Branches |-> NoBranchResult]

\* Faulty variant of request_payload: the incentive rate of the request is read
\* from the shared GlobalSettings when the request is sent.
request_payload_from_settings(built, settings) ==
    [built EXCEPT
        !.federal_tax_credit_rate = federal_tax_credit_rate(settings)]

\* The payload a request carries: the dict the call built for itself
\* (part_015 56-66: fed_itc_fraction and financial_params are locals of the
\* call); the shared settings are not read again.
request_payload(built, settings) == built

\* run_reopt_optimization of branch b up to its request: get_financial_params
\* is asked for the branch's property and ownership type, which the shared
\* settings object takes on, and _build_payload returns the branch's payload.
BuildPayload(b, start_date) ==
    /\ ppc[b] = "idle"
    /\ global_settings' = GlobalSettings("residential", b, start_date)
    /\ local_payload' = [local_payload EXCEPT ![b] = build_payload("residential", b, start_date)]
    /\ ppc' = [ppc EXCEPT ![b] = "built"]
    /\ UNCHANGED <<posted, settings_at_post, presults>>
    /\ UNCHANGED otherThanParallel

\* The request of branch b is sent and the call suspends in the await.
Post(b) ==
    /\ ppc[b] = "built"
    /\ posted' = [posted EXCEPT ![b] = request_payload(local_payload[b], global_settings)]
    /\ settings_at_post' = [settings_at_post EXCEPT ![b] = global_settings.ownership_type]
    /\ ppc' = [ppc EXCEPT ![b] = "awaiting"]
    /\ UNCHANGED <<global_settings, local_payload, presults>>
    /\ UNCHANGED otherThanParallel

\* The reply of branch b arrived; its scenario is extracted.
Receive(b, npv) ==
    /\ ppc[b] = "awaiting"
    /\ presults' = [presults EXCEPT ![b] = Scenario(posted[b], npv)]
    /\ ppc' = [ppc EXCEPT ![b] = "done"]
    /\ UNCHANGED <<global_settings, local_payload, posted, settings_at_post>>
    /\ UNCHANGED otherThanParallel

ParallelNext ==
    \/ \E b \in Branches, start_date \in Dates : BuildPayload(b, start_date)
    \/ \E b \in Branches : Post(b)
    \/ \E b \in Branches, npv \in NPVs : Receive(b, npv)

(***************************************************************************)
(* Answer Synthesizer (spec 4.7): the sources of the FinalAnswer           *)
(***************************************************************************)

\* The SourceDocuments a ToolResult can list: none, one or two; a failed
\* ToolResult can list what its tool had retrieved before it failed.
SourceLists == {<<>>, <<"doc_a">>, <<"doc_a", "doc_b">>}

ToolResults == [success : BOOLEAN, sources : SourceLists]

\* The inputs of the Synthesizer: one ToolResult per sub-question.
ToolResultLists == UNION {[1..n -> ToolResults] : n \in 1..MaxSubQuestions}

NoFinalAnswer == [sources |-> <<>>, num_sources |-> 0]

SynthesizeInit ==
    /\ ypc = "idle"
    /\ tool_results = <<>>
    /\ final_answer = NoFinalAnswer

\* Faulty variant of AggregateSources: the sources of failed ToolResults are
\* aggregated as well.
RECURSIVE AggregateAllSources(_)
AggregateAllSources(rs) ==
    IF rs = <<>> THEN <<>>
    ELSE Head(rs).sources \o AggregateAllSources(Tail(rs))

\* The aggregated sources: those of the successful ToolResults, in
\* sub-question order.
RECURSIVE AggregateSources(_)
AggregateSources(rs) ==
    IF rs = <<>> THEN <<>>
    ELSE (IF Head(rs).success THEN Head(rs).sources ELSE <<>>)
            \o AggregateSources(Tail(rs))

\* The Dispatcher's results reach the Synthesizer.
SynthesizerInput(rs) ==
    /\ ypc = "idle"
    /\ tool_results' = rs
    /\ ypc' = "received"
    /\ UNCHANGED final_answer
    /\ UNCHANGED otherThanSynthesize

\* The FinalAnswer is built: aggregated sources and their count.
Synthesize ==
    /\ ypc = "received"
    /\ final_answer' = [sources |-> AggregateSources(tool_results),
                        num_sources |-> Len(AggregateSources(tool_results))]
    /\ ypc' = "answered"
    /\ UNCHANGED tool_results
    /\ UNCHANGED otherThanSynthesize

SynthesizeNext ==
    \/ \E rs \in ToolResultLists : SynthesizerInput(rs)
    \/ Synthesize

(***************************************************************************)
(* The incentive rule in its two implementations                           *)
(***************************************************************************)

PropertyTypes == {"residential", "commercial", "industrial"}

\* "none": the ownership type is not specified.
OwnershipTypes == {"purchase", "lease", "none"}

RatesInit == rate_calls = <<>>

\* The rate is computed for one project by the ITC logic block of
\* REoptService (part_015 56-62) and by GlobalSettings.federal_tax_credit_rate
\* (SCENARIO_BRANCHING 235-242).
ComputeRates(property_type, ownership_type, start_date) ==
    /\ Len(rate_calls) < MaxRateCalls
    /\ rate_calls' = Append(rate_calls,
          [property_type |-> property_type,
           ownership_type |-> ownership_type,
           construction_start_date |-> start_date,
           logic_block |-> fed_itc_fraction(property_type, ownership_type),
           settings |-> federal_tax_credit_rate(
                            GlobalSettings(property_type, ownership_type, start_date))])
    /\ UNCHANGED otherThanRates

RatesNext ==
    \E property_type \in PropertyTypes, ownership_type \in OwnershipTypes,
       start_date \in Dates :
         ComputeRates(property_type, ownership_type, start_date)

(***************************************************************************)
(* The streaming client: RAGQueryForm.handleSubmit                         *)
(* (rag-query-form.tsx 93-235)                                             *)
(***************************************************************************)

\* What the response body is made of: event frames ("event: <type>" and
\* "data: <json>" on two lines), named by their type, and the blank line
\* that ends a frame.
EventFrames == {"status", "chunk", "done", "error"}

BlankLine == "blank"

\* The bodies a response can deliver before it closes: every sequence of
\* frames and blank lines up to MaxStreamLen, so that a body can close
\* without a done or error frame, or without a blank line after its last
\* frame.
Streams == UNION {[1..n -> EventFrames \cup {BlankLine}] : n \in 0..MaxStreamLen}

ClientInit ==
    /\ kpc = "idle"
    /\ loading = FALSE
    /\ loadingStage = "null"
    /\ response = "null"
    /\ error = "null"
    /\ stream = <<>>
    /\ buffer = <<>>

\* lines 93-121: the form is submitted; the state is reset and the request
\* is sent.  body is what the response will deliver.
HandleSubmit(body) ==
    /\ kpc = "idle"
    /\ loading' = TRUE
    /\ error' = "null"
    /\ response' = "null"
    /\ loadingStage' = "analyzing"
    /\ stream' = body
    /\ buffer' = <<>>
    /\ kpc' = "fetching"
    /\ UNCHANGED otherThanClient

\* lines 123-126, 229-235: the response is not ok (or fetch rejected); the
\* error thrown is caught, and finally ends the loading.
FetchFails ==
    /\ kpc = "fetching"
    /\ error' = "Failed to process query"
    /\ loading' = FALSE
    /\ loadingStage' = "null"
    /\ kpc' = "finished"
    /\ UNCHANGED <<response, stream, buffer>>
    /\ UNCHANGED otherThanClient

\* lines 129-141: the response is ok; the reader is taken and the buffer is
\* empty.
FetchOk ==
    /\ kpc = "fetching"
    /\ kpc' = "reading"
    /\ UNCHANGED <<loading, loadingStage, response, error, stream, buffer>>
    /\ UNCHANGED otherThanClient

\* lines 144-149: a read delivers text without a blank line; split leaves
\* one part, which goes back to the buffer.
ReadFrame ==
    /\ kpc = "reading"
    /\ stream # <<>>
    /\ Head(stream) # BlankLine
    /\ buffer' = Append(buffer, Head(stream))
    /\ stream' = Tail(stream)
    /\ UNCHANGED <<kpc, loading, loadingStage, response, error>>
    /\ UNCHANGED otherThanClient

\* lines 144-226: a read delivers the blank line; the part before it is
\* complete and is handled: an empty part is skipped (152), of its lines the
\* first two are the event (154), and the event is handled by its type; an
\* error event throws, which ends the reading (225, 229-235).
ReadBlankLine ==
    /\ kpc = "reading"
    /\ stream # <<>>
    /\ Head(stream) = BlankLine
    /\ stream' = Tail(stream)
    /\ buffer' = <<>>
    /\ LET eventType == IF buffer = <<>> THEN "none" ELSE buffer[1]
       IN  CASE eventType = "status" ->
                  /\ loadingStage' = "searching"
                  /\ UNCHANGED <<kpc, loading, response, error>>
             [] eventType = "chunk" ->
                  /\ response' = "chunkResponse"
                  /\ UNCHANGED <<kpc, loading, loadingStage, error>>
             [] eventType = "done" ->
                  /\ response' = "finalResponse"
                  /\ UNCHANGED <<kpc, loading, loadingStage, error>>
             [] eventType = "error" ->
                  /\ error' = "An error occurred"
                  /\ loading' = FALSE
                  /\ loadingStage' = "null"
                  /\ kpc' = "finished"
                  /\ UNCHANGED response
             [] OTHER ->
                  UNCHANGED <<kpc, loading, loadingStage, response, error>>
    /\ UNCHANGED otherThanClient

\* lines 144-146, 231-235: the body is closed (done is true); the loop is
\* left, what is in the buffer is not looked at, and finally ends the loading.
ReadEnd ==
    /\ kpc = "reading"
    /\ stream = <<>>
    /\ loading' = FALSE
    /\ loadingStage' = "null"
    /\ kpc' = "finished"
    /\ UNCHANGED <<response, error, stream, buffer>>
    /\ UNCHANGED otherThanClient

ClientNext ==
    \/ \E body \in Streams : HandleSubmit(body)
    \/ FetchFails
    \/ FetchOk
    \/ ReadFrame
    \/ ReadBlankLine
    \/ ReadEnd

(***************************************************************************)
(* The composition retry(breaker.call(cache.get_or_fetch(...))) (spec 4.5) *)
(* of the three primitives of part_003, for one caller at a time.  Between *)
(* the top of breaker.call and `await fetch_func()` there is no await, so  *)
(* the admission and the cache lookup are one step.                        *)
(***************************************************************************)

\* asyncio.sleep(d) returns no sooner than d seconds later, and the clock
\* breaker.call reads afterwards may have moved on: by how much.
Overshoots == {0, 1}

ComposeInit ==
    /\ xpc = "idle"
    /\ x_key = <<>>
    /\ x_outcome = "none"
    /\ nseq = 0
    /\ provider_calls = 0
    /\ cache_lookups = 0
    /\ slept = 0

\* The state breaker.call goes on with once a call is admitted (143-146).
AdmittedState == IF state = "open" THEN "half_open" ELSE state

\* success_count once a call is admitted (146: reset on the trial).
AdmittedSuccesses == IF state = "open" THEN 0 ELSE success_count

\* breaker.call, lines 152-157: func returned, the breaker being in state st
\* with sc successes counted.
ComposeBreakerSuccess(st, sc) ==
    IF st = "half_open"
    THEN /\ success_count' = sc + 1
         /\ IF ShouldClose(sc + 1)
            THEN /\ state' = "closed"
                 /\ failure_count' = 0
            ELSE /\ state' = st
                 /\ UNCHANGED failure_count
    ELSE /\ state' = st
         /\ success_count' = sc
         /\ UNCHANGED failure_count

\* retry_with_backoff lines 38-43: a provider call starts; the first attempt
\* enters breaker.call.
ComposeStart(ck, d) ==
    /\ xpc \in {"idle", "returned", "raised"}
    /\ nseq < MaxSequences
    /\ max_retries > 0
    /\ x_key' = ck
    /\ r_initial_delay' = d
    /\ delay' = d
    /\ attempt' = 0
    /\ provider_calls' = 0
    /\ slept' = 0
    /\ x_outcome' = "none"
    /\ nseq' = nseq + 1
    /\ xpc' = "calling"
    /\ UNCHANGED <<now, state, failure_count, success_count, last_failure_time,
                   cache, cache_lookups>>
    /\ UNCHANGED otherThanCompose

\* Faulty variant of ComposeReject: the fast-fail is treated as a retryable
\* error, and a valid cache entry is looked up for it.
ComposeRejectRetried ==
    /\ xpc = "calling"
    /\ state = "open"
    /\ ~CooldownElapsed(now, last_failure_time[1])
    /\ cache_lookups' = IF CacheValid(x_key) THEN cache_lookups + 1
                        ELSE cache_lookups
    /\ IF attempt < max_retries - 1
       THEN /\ xpc' = "sleeping"
            /\ UNCHANGED x_outcome
       ELSE /\ xpc' = "raised"
            /\ x_outcome' = "Circuit breaker is OPEN"
    /\ UNCHANGED <<now, state, failure_count, success_count, last_failure_time,
                   cache, attempt, delay, r_initial_delay, x_key, nseq,
                   provider_calls, slept>>
    /\ UNCHANGED otherThanCompose

\* breaker.call lines 143-148 with state OPEN and the cool-down not elapsed:
\* raise Exception("Circuit breaker is OPEN") before func, that is
\* get_or_fetch, is called.  The class Exception is none of retry's
\* `exceptions` (35, 44), so the error leaves retry_with_backoff.
ComposeReject ==
    /\ xpc = "calling"
    /\ state = "open"
    /\ ~CooldownElapsed(now, last_failure_time[1])
    /\ IF /\ \E base \in exceptions : IsSubclass("Exception", base)
          /\ attempt < max_retries - 1
       THEN /\ xpc' = "sleeping"
            /\ UNCHANGED x_outcome
       ELSE /\ xpc' = "raised"
            /\ x_outcome' = "Circuit breaker is OPEN"
    /\ UNCHANGED <<now, state, failure_count, success_count, last_failure_time,
                   cache, attempt, delay, r_initial_delay, x_key, nseq,
                   provider_calls, cache_lookups, slept>>
    /\ UNCHANGED otherThanCompose

\* breaker.call 143-151, get_or_fetch 92-96, breaker.call 152-157: the call
\* is admitted, the entry of the key is valid and is returned; for the
\* breaker func has returned, and retry returns the value.
ComposeHit ==
    /\ xpc = "calling"
    /\ state = "open" => CooldownElapsed(now, last_failure_time[1])
    /\ CacheValid(x_key)
    /\ cache_lookups' = cache_lookups + 1
    /\ ComposeBreakerSuccess(AdmittedState, AdmittedSuccesses)
    /\ xpc' = "returned"
    /\ x_outcome' = "returned"
    /\ UNCHANGED <<now, last_failure_time, cache, attempt, delay,
                   r_initial_delay, x_key, nseq, provider_calls, slept>>
    /\ UNCHANGED otherThanCompose

\* breaker.call 143-151, get_or_fetch 92-99: the call is admitted, there is
\* no valid entry and fetch_func, the provider, is invoked.
ComposeMiss ==
    /\ xpc = "calling"
    /\ state = "open" => CooldownElapsed(now, last_failure_time[1])
    /\ ~CacheValid(x_key)
    /\ cache_lookups' = cache_lookups + 1
    /\ state' = AdmittedState
    /\ success_count' = AdmittedSuccesses
    /\ provider_calls' = provider_calls + 1
    /\ xpc' = "fetching"
    /\ UNCHANGED <<now, failure_count, last_failure_time, cache, attempt, delay,
                   r_initial_delay, x_key, x_outcome, nseq, slept>>
    /\ UNCHANGED otherThanCompose

\* get_or_fetch 99-101, breaker.call 152-157, retry 43: the provider
\* returned; the result is stored and returned all the way up.
ComposeFetchReturns(v) ==
    /\ xpc = "fetching"
    /\ cache' = [cache EXCEPT ![x_key] = <<v, now>>]
    /\ ComposeBreakerSuccess(state, success_count)
    /\ xpc' = "returned"
    /\ x_outcome' = "returned"
    /\ UNCHANGED <<now, last_failure_time, attempt, delay, r_initial_delay,
                   x_key, nseq, provider_calls, cache_lookups, slept>>
    /\ UNCHANGED otherThanCompose

\* get_or_fetch 99, breaker.call 158-165, retry 44-50: the provider raised.
\* Nothing is stored; the breaker counts the failure and re-raises; retry
\* sleeps on an error it catches unless the attempt was the last.
ComposeFetchRaises(kind) ==
    /\ xpc = "fetching"
    /\ failure_count' = failure_count + 1
    /\ last_failure_time' = <<now>>
    /\ state' = IF ShouldOpen(failure_count + 1) THEN "open" ELSE state
    /\ IF Caught(kind) /\ attempt < max_retries - 1
       THEN /\ xpc' = "sleeping"
            /\ UNCHANGED x_outcome
       ELSE /\ xpc' = "raised"
            /\ x_outcome' = kind
    /\ UNCHANGED <<now, success_count, cache, attempt, delay, r_initial_delay,
                   x_key, nseq, provider_calls, cache_lookups, slept>>
    /\ UNCHANGED otherThanCompose

\* retry 47-48, 41-43: the sleep is over, the delay grows and the next attempt
\* enters breaker.call.
ComposeWake(over) ==
    /\ xpc = "sleeping"
    /\ slept' = Min(delay, max_delay)
    /\ now' = now + Min(delay, max_delay) + over
    /\ delay' = delay * backoff_factor
    /\ attempt' = attempt + 1
    /\ xpc' = "calling"
    /\ UNCHANGED <<state, failure_count, success_count, last_failure_time,
                   cache, r_initial_delay, x_key, x_outcome, nseq,
                   provider_calls, cache_lookups>>
    /\ UNCHANGED otherThanCompose

\* Time passes between two provider calls (just more than a cool-down).
ComposeTick ==
    /\ xpc \in {"idle", "returned", "raised"}
    /\ now < MaxTicks * TickStep
    /\ now' = now + timeout + 1
    /\ UNCHANGED <<state, failure_count, success_count, last_failure_time,
                   cache, attempt, delay, r_initial_delay>>
    /\ UNCHANGED xvars
    /\ UNCHANGED otherThanCompose

ComposeNext ==
    \/ \E ck \in CacheKeys, d \in InitialDelays : ComposeStart(ck, d)
    \/ ComposeReject
    \/ ComposeHit
    \/ ComposeMiss
    \/ \E v \in Values : ComposeFetchReturns(v)
    \/ \E kind \in ErrorKinds : ComposeFetchRaises(kind)
    \/ \E over \in Overshoots : ComposeWake(over)
    \/ ComposeTick

(***************************************************************************)
(* Specifications                                                          *)
(***************************************************************************)

Init ==
    /\ now = 0
    /\ BreakerInit
    /\ CacheInit
    /\ RetryInit
    /\ DispatchInit
    /\ StreamInit
    /\ DecomposeInit
    /\ ScenarioInit
    /\ ParallelInit
    /\ SynthesizeInit
    /\ RatesInit
    /\ ClientInit
    /\ ComposeInit

SpecBreaker == Init /\ [][BreakerNext]_vars

SpecCache == Init /\ [][CacheNext]_vars

SpecRetry == Init /\ [][RetryNext]_vars

\* retry_with_backoff with its awaits completing: asyncio.sleep (line 47)
\* ends after its delay, and the awaited func (line 43) returns or raises.
SpecRetryFair ==
    /\ SpecRetry
    /\ WF_vars(RetryWake)
    /\ WF_vars(RetryFuncReturns \/ \E kind \in ErrorKinds : RetryFuncRaises(kind))

SpecDispatch == Init /\ [][DispatchNext]_vars

\* Dispatcher.run with its timer and its join progressing: the time budget of
\* a running tool expires, and run resumes once every invocation has ended.
\* Nothing is assumed about the tools themselves, which may never complete.
SpecDispatchFair ==
    /\ SpecDispatch
    /\ \A i \in 1..MaxSubQuestions : WF_vars(ToolTimesOut(i))
    /\ WF_vars(Gather)

SpecStream == Init /\ [][StreamNext]_vars

SpecDecompose == Init /\ [][DecomposeNext]_vars

SpecScenario == Init /\ [][ScenarioNext]_vars

SpecParallel == Init /\ [][ParallelNext]_vars

SpecSynthesize == Init /\ [][SynthesizeNext]_vars

SpecRates == Init /\ [][RatesNext]_vars

SpecClient == Init /\ [][ClientNext]_vars

SpecCompose == Init /\ [][ComposeNext]_vars

(***************************************************************************)
(* Claims about the circuit breaker                                        *)
(***************************************************************************)

\* The step is the completion of caller c's in-flight call with a failure.
FailureCompletes(c) ==
    bpc[c] = "awaiting" /\ bpc'[c] = "idle" /\ boutcome'[c] = "error"

\* The step starts a call of caller c that invokes the wrapped function.
Invokes(c) == bpc[c] = "idle" /\ bpc'[c] = "awaiting"

\* C3: starting from a Closed breaker with failure_count 0, the failure that
\* completes a run of failure_threshold consecutive failed calls leaves the
\* breaker Open, and every failure of a shorter run leaves it Closed.
C3_OpensAtThreshold ==
    [][ (runActive' /\ runLen' = runLen + 1) =>
            /\ (runLen' = failure_threshold => state' = "open")
            /\ (runLen' < failure_threshold => state' = "closed") ]_vars

\* C3 witness: the fifth consecutive failure has just opened the breaker.
C3_Witness ==
    runActive /\ runLen = failure_threshold /\ state = "open"
    /\ failure_count = failure_threshold

\* The error the specification calls DependencyUnavailable is the exception
\* call() raises with this message (line 148).
DependencyUnavailable == "Circuit breaker is OPEN"

\* C4: a call made while the breaker is Open and less than the cool-down has
\* elapsed since last_failure_time ends at once with DependencyUnavailable
\* and invokes no wrapped function.
C4_FailFastWhileOpen ==
    [][ ( /\ ncalls' = ncalls + 1
          /\ state = "open"
          /\ now - last_failure_time[1] < timeout )
        => /\ bpc' = bpc
           /\ \E c \in Callers :
                 /\ bpc[c] = "idle"
                 /\ boutcome' = [boutcome EXCEPT ![c] = DependencyUnavailable] ]_vars

\* C4 witness: a caller was rejected by the Open breaker inside the cool-down.
C4_Witness ==
    \E c \in Callers :
        /\ boutcome[c] = DependencyUnavailable
        /\ state = "open"
        /\ now - last_failure_time[1] < timeout

\* C5: while the breaker is HalfOpen with a trial call in flight, no other
\* caller's function is invoked.
C5_SingleTrial ==
    [][ ( /\ state = "half_open"
          /\ \E c \in Callers : bpc[c] = "awaiting" /\ admittedIn[c] = "half_open" )
        => \A d \in Callers : ~Invokes(d) ]_vars

\* C6: in HalfOpen the breaker becomes Closed exactly on the success that
\* brings the successes of the episode to success_threshold, and not before.
C6_ClosesAtSuccessThreshold ==
    /\ [](state = "half_open" => hoSucc < success_threshold)
    /\ [][ state = "half_open" =>
             /\ (state' = "closed" => hoSucc' = success_threshold)
             /\ (hoSucc' = success_threshold => state' = "closed") ]_vars

\* C6 witness: the second success of a HalfOpen episode has closed the breaker.
C6_Witness ==
    /\ state = "closed"
    /\ hoSucc = success_threshold
    /\ failure_count = 0
    /\ last_failure_time # <<>>

\* C7: a failed call completing while the breaker is HalfOpen leaves it Open
\* with success_count equal to 0.
C7_HalfOpenFailureResets ==
    [][ \A c \in Callers :
          (state = "half_open" /\ FailureCompletes(c))
          => (state' = "open" /\ success_count' = 0) ]_vars

\* C8: the breaker state changes only by Closed->Open (with failure_count at
\* or above the threshold), Open->HalfOpen (with more than the cool-down
\* elapsed since last_failure_time), HalfOpen->Closed and HalfOpen->Open.
C8_TransitionsOnly ==
    [][ state' # state =>
          \/ /\ state = "closed" /\ state' = "open"
             /\ failure_count' >= failure_threshold
          \/ /\ state = "open" /\ state' = "half_open"
             /\ last_failure_time # <<>>
             /\ now - last_failure_time[1] > timeout
          \/ state = "half_open" /\ state' = "closed"
          \/ state = "half_open" /\ state' = "open" ]_vars

\* C8 witness: the breaker has gone Closed -> Open -> HalfOpen -> Closed (only
\* the HalfOpen -> Closed step resets failure_count after a failure) and has
\* met a further failure since.
C8_Witness ==
    /\ state = "closed"
    /\ last_failure_time # <<>>
    /\ failure_count = 1
    /\ ncalls > failure_threshold + success_threshold

\* The step is the completion of caller c's in-flight call with a success.
SuccessCompletes(c) ==
    bpc[c] = "awaiting" /\ bpc'[c] = "idle" /\ boutcome'[c] = "ok"

\* C21: a successful call completing while the breaker is Closed resets
\* failure_count to 0, so that only failure_threshold failures in a row, with
\* no success between them, can open the breaker.
C21_SuccessWhileClosedResets ==
    [][ \A c \in Callers :
          (state = "closed" /\ SuccessCompletes(c)) => failure_count' = 0 ]_vars

\* C22: every failure completion, in any interleaving with the other calls
\* in flight, raises failure_count by exactly one, and the breaker is Open as
\* soon as failure_count has reached failure_threshold.
C22_ConcurrentFailuresCounted ==
    /\ [][ \A c \in Callers :
             FailureCompletes(c) =>
               /\ failure_count' = failure_count + 1
               /\ (failure_count' >= failure_threshold => state' = "open") ]_vars
    /\ [](failure_count >= failure_threshold => state # "closed")

\* C22 witness: two calls were in flight together when the count stood one
\* below the threshold; both failed, the first opening the breaker and the
\* second (admitted before it opened, no time having passed) counted as well.
C22_Witness ==
    /\ now = 0
    /\ state = "open"
    /\ failure_count = failure_threshold + 1
    /\ \A c \in Callers : bpc[c] = "idle"

\* C34: in every reachable state, Closed implies failure_count below
\* failure_threshold, HalfOpen implies success_count below success_threshold,
\* and Open implies last_failure_time is set.
C34_BreakerStateInvariant ==
    /\ state = "closed" => failure_count < failure_threshold
    /\ state = "half_open" => success_count < success_threshold
    /\ state = "open" => last_failure_time # <<>>

\* C34 witness: the breaker has been Open and is HalfOpen one success short
\* of closing.
C34_Witness ==
    /\ state = "half_open"
    /\ success_count = success_threshold - 1
    /\ failure_count >= failure_threshold
    /\ last_failure_time # <<>>

\* The step is a call of caller c rejected by the Open breaker.
Rejected(c) ==
    /\ bpc[c] = "idle"
    /\ bpc' = bpc
    /\ ncalls' = ncalls + 1
    /\ boutcome' = [boutcome EXCEPT ![c] = DependencyUnavailable]

\* C35: a call rejected by the Open breaker leaves state, failure_count,
\* success_count and last_failure_time as they were.
C35_RejectionChangesNothing ==
    [][ (\E c \in Callers : Rejected(c)) =>
           /\ state' = state
           /\ failure_count' = failure_count
           /\ success_count' = success_count
           /\ last_failure_time' = last_failure_time ]_vars

\* C35 witness: both callers were rejected some time after the last failure,
\* whose time still stands.
C35_Witness ==
    /\ \A c \in Callers : boutcome[c] = DependencyUnavailable
    /\ state = "open"
    /\ last_failure_time # <<>>
    /\ last_failure_time[1] < now

\* C36: a successful call increments success_count only if it was admitted
\* while the breaker was HalfOpen; the success of a call admitted while
\* Closed leaves success_count as it was.
C36_OnlyHalfOpenAdmissionsCount ==
    [][ \A c \in Callers :
          (SuccessCompletes(c) /\ admittedIn[c] # "half_open")
          => success_count' = success_count ]_vars

(***************************************************************************)
(* Claims about the cache                                                  *)
(***************************************************************************)

\* The step is the start of a get_or_fetch call of caller c on cache key ck.
CacheCallStarts(c, ck) ==
    /\ ccalls' = ccalls + 1
    /\ cactor' = c
    /\ ckey'[c] = ck

\* C9: get_or_fetch returns the stored value without invoking fetch_func if
\* and only if the key has an entry with now - stored_at < ttl (an entry aged
\* exactly ttl is a miss); otherwise, stale entry included, it raises nothing
\* of its own and invokes fetch_func once, and when fetch_func returns it
\* stores the result with stored_at = now and returns that result.
C9_GetOrFetch ==
    /\ [][ \A c \in Callers, ck \in CacheKeys :
             CacheCallStarts(c, ck) =>
               IF cache[ck] # <<>> /\ now - cache[ck][2] < ttl
               THEN /\ cpc'[c] = "idle"
                    /\ coutcome'[c].kind = "hit"
                    /\ coutcome'[c].value = cache[ck][1]
                    /\ coutcome'[c].fetches = 0
                    /\ cache' = cache
               ELSE /\ cpc'[c] = "fetching"
                    /\ coutcome'[c].kind = "pending"
                    /\ coutcome'[c].fetches = 1 ]_vars
    /\ [][ \A c \in Callers :
             (cpc[c] = "fetching" /\ cpc'[c] = "idle" /\ coutcome'[c].kind = "fetched") =>
               /\ coutcome'[c].fetches = 1
               /\ cache'[ckey[c]] = <<coutcome'[c].value, now>>
               /\ \A ck \in CacheKeys \ {ckey[c]} : cache'[ck] = cache[ck] ]_vars

\* C9 witness: a caller has re-fetched and stored a key whose entry had
\* expired, while the other caller was served a hit.
C9_Witness ==
    \E c, d \in Callers :
        /\ coutcome[c].kind = "fetched"
        /\ coutcome[c].stale
        /\ cache[ckey[c]] = <<coutcome[c].value, now>>
        /\ coutcome[d].kind = "hit"

\* C23: once a valid entry exists for a key it is not replaced while it is
\* valid: no step, the completion of a fetch started before the entry was
\* stored included, changes the entry of a key whose entry is still fresh.
C23_ValidEntryNotOverwritten ==
    [][ \A ck \in CacheKeys :
          (cache[ck] # <<>> /\ now - cache[ck][2] < ttl) => cache'[ck] = cache[ck] ]_vars

\* C24: when a get_or_fetch that found an expired entry for its key ends,
\* with the re-fetch returning or raising, the cache holds no expired entry
\* for that key.
C24_ExpiredEntryPruned ==
    [][ \A c \in Callers :
          (cpc[c] = "fetching" /\ cpc'[c] = "idle" /\ coutcome[c].stale) =>
             \/ cache'[ckey[c]] = <<>>
             \/ now - cache'[ckey[c]][2] < ttl ]_vars

\* C37: when fetch_func raises, get_or_fetch ends with that error, returning
\* no value, and the cache is as it was: no entry is created, an existing
\* entry of the key keeps its value and timestamp, other keys are untouched.
C37_FetchErrorLeavesCache ==
    [][ \A c \in Callers :
          (cpc[c] = "fetching" /\ cpc'[c] = "idle" /\ coutcome'[c].kind # "fetched")
          => /\ coutcome'[c].kind = "error"
             /\ coutcome'[c].value = "none"
             /\ \A ck \in CacheKeys : cache'[ck] = cache[ck] ]_vars

\* C37 witness: the re-fetch of an expired entry raised; the entry is still
\* stored with its old timestamp, next to an entry of the other key.
C37_Witness ==
    \E c \in Callers :
        /\ cpc[c] = "idle"
        /\ coutcome[c].kind = "error"
        /\ coutcome[c].stale
        /\ cache[ckey[c]] # <<>>
        /\ now - cache[ckey[c]][2] >= ttl
        /\ \E ck \in CacheKeys \ {ckey[c]} : cache[ck] # <<>>

(***************************************************************************)
(* Claims about retry                                                      *)
(***************************************************************************)

\* The error kinds the specification designates as transient.
TransientKinds == {"Timeout", "NetworkError", "ServerError", "RateLimited"}

\* C10: func is re-invoked only after an error of a transient kind; an error
\* of any other kind leaves retry at once, with no further invocation of
\* func and no backoff sleep.
C10_RetriesOnlyTransient ==
    /\ [][ rinvocations' > rinvocations /\ rinvocations >= 1
             => rerrors[Len(rerrors)] \in TransientKinds ]_vars
    /\ [][ (Len(rerrors') > Len(rerrors)
             /\ rerrors'[Len(rerrors')] \notin TransientKinds)
             => /\ rpc' = "raised"
                /\ rsleeps' = rsleeps ]_vars

\* C25: func is invoked at most max_retries times; retry returns at the first
\* success, every earlier invocation having failed, and invokes nothing after
\* it has ended; when the last of max_retries attempts fails with a caught
\* error retry ends by raising that error; and a started retry always ends,
\* by returning or by raising.
C25_RetryTerminates ==
    /\ [](rinvocations <= max_retries)
    /\ [](rpc = "returned" => rinvocations = Len(rerrors) + 1)
    /\ [](rpc = "raised" => rinvocations = Len(rerrors))
    /\ [][ (rpc = "returned" \/ rpc = "raised") => rinvocations' = rinvocations ]_vars
    /\ [][ ( /\ Len(rerrors') = max_retries
             /\ Len(rerrors) < max_retries
             /\ \A k \in 1..max_retries : Caught(rerrors'[k]) )
           => /\ rpc' = "raised"
              /\ last_exception' = rerrors'[max_retries] ]_vars
    /\ (rpc = "awaiting" ~> rpc \in {"returned", "raised"})

\* C25 witness: all max_retries attempts failed with caught errors and the
\* last error was raised.
C25_Witness ==
    /\ rpc = "raised"
    /\ rinvocations = max_retries
    /\ Len(rerrors) = max_retries
    /\ \A k \in 1..max_retries : Caught(rerrors[k])
    /\ last_exception = rerrors[max_retries]

\* initial_delay * backoff_factor^(k-1)
RECURSIVE GeometricDelay(_, _)
GeometricDelay(d, k) == IF k = 1 THEN d ELSE backoff_factor * GeometricDelay(d, k - 1)

\* C26: the k-th backoff sleep lasts min(initial_delay * backoff_factor^(k-1),
\* max_delay); at most max_retries - 1 sleeps occur, and the failure of the
\* final attempt is followed by no sleep.
C26_BackoffDelays ==
    /\ [](\A k \in 1..Len(rsleeps) :
             rsleeps[k] = IF GeometricDelay(r_initial_delay, k) <= max_delay
                          THEN GeometricDelay(r_initial_delay, k)
                          ELSE max_delay)
    /\ [](Len(rsleeps) <= max_retries - 1)
    /\ [](rpc = "sleeping" => Len(rsleeps) = Len(rerrors))
    /\ [][ Len(rerrors') = max_retries /\ Len(rerrors) < max_retries
             => rsleeps' = rsleeps /\ rpc' # "sleeping" ]_vars

\* C26 witness: the second sleep was capped at max_delay and the final
\* failure was raised without a third sleep.
C26_Witness ==
    /\ rpc = "raised"
    /\ Len(rerrors) = max_retries
    /\ Len(rsleeps) = max_retries - 1
    /\ rsleeps[1] = r_initial_delay
    /\ r_initial_delay * backoff_factor > max_delay
    /\ rsleeps[2] = max_delay

(***************************************************************************)
(* Claims about the response stream and input validation                   *)
(***************************************************************************)

IsTerminal(e) == e.type \in {"done", "error"}

LastEvent == events[Len(events)]

\* C11: a response stream holds at most one terminal event (done or error),
\* which is its last event: no status, tool or chunk event follows it, and
\* the stream is closed exactly when its last event is terminal.
C11_ExactlyOneTerminalEvent ==
    /\ \A i \in 1..Len(events) : IsTerminal(events[i]) => i = Len(events)
    /\ (spc = "closed") <=> (events # <<>> /\ IsTerminal(LastEvent))

\* C11 witness: a stream that went through tool, status and chunk events
\* and is closed by done.
C11_Witness ==
    /\ spc = "closed"
    /\ LastEvent.type = "done"
    /\ \E i, j \in 1..Len(events) :
         i < j /\ events[i].type = "tool" /\ events[j].type = "chunk"

\* C12: an error event is written only for a validation failure, which
\* precedes dispatch, or for an internal fault; a stream whose tools all
\* failed and that met no internal fault ends with done carrying the apology.
C12_FatalStillDone ==
    /\ \A i \in 1..Len(events) :
         events[i].type = "error" =>
           \/ events[i].detail = "internal"
           \/ events[i].detail = "validation" /\ s_tools = <<>> /\ i = 1
    /\ ( /\ spc = "closed"
         /\ s_tools # <<>>
         /\ AllFailed(s_tools)
         /\ LastEvent # Event("error", "internal") )
       => LastEvent = Event("done", "apology")

\* C12 witness: dispatch began, both tools failed, and the stream is closed
\* by done with the apology.
C12_Witness ==
    /\ spc = "closed"
    /\ Len(s_tools) = 2
    /\ AllFailed(s_tools)
    /\ failure_count = 2
    /\ LastEvent = Event("done", "apology")

IsStatus(e) == e.type = "status"

\* The status events of the stream, in the order written.
StatusEvents == SelectSeq(events, IsStatus)

\* C31: the status events of a stream are, in this order and each at most
\* once, analyzing, searching, retrieving, generating, finalizing (a stream
\* may end before the last of them); done is written only after finalizing.
C31_StagesInFixedOrder ==
    /\ Len(StatusEvents) <= Len(Stages)
    /\ \A i \in 1..Len(StatusEvents) : StatusEvents[i].detail = Stages[i]
    /\ \A i \in 1..Len(events) :
          events[i].type = "done" =>
             /\ Len(StatusEvents) = Len(Stages)
             /\ StatusEvents[Len(Stages)].detail = "finalizing"

ExactlyFiveDigits(zip_code) ==
    Len(zip_code) = 5 /\ \A i \in 1..5 : zip_code[i] \in Digits

\* The malformed inputs of spec 7, ValidationError.
Malformed(req) ==
    \/ req.zip_given /\ ~ExactlyFiveDigits(req.zip_code)
    \/ req.question_len = 0
    \/ req.question_len > max_question_length

\* C13: a request whose postal code is not exactly five digits, or whose
\* question is empty or too long, is rejected before dispatch: its stream
\* ends with error, no tool is invoked and no tool event written, and the
\* breaker and the cache stay as they were.
C13_MalformedRejectedBeforeDispatch ==
    (spc # "idle" /\ Malformed(request)) =>
        /\ spc \in {"validating", "closed"}
        /\ spc = "closed" => events = <<Event("error", "validation")>>
        /\ \A i \in 1..Len(events) : events[i].type # "tool"
        /\ s_tools = <<>>
        /\ state = "closed" /\ failure_count = 0 /\ last_failure_time = <<>>
        /\ \A ck \in CacheKeys : cache[ck] = <<>>

(***************************************************************************)
(* Claims about the Resolver and the Decomposer                            *)
(***************************************************************************)

\* C14: for every tool_name (empty, unknown, differently cased or
\* punctuated) the Resolver returns a registered identifier, and every
\* sub-question the Decomposer returns has a registered tool id.
C14_ResolverReturnsRegistered ==
    /\ qpc = "resolved" => resolved \in Registered
    /\ qpc = "decomposed" =>
         \A i \in 1..Len(sub_questions) : sub_questions[i].tool \in Registered

\* C14 witness: a name that matches no identifier exactly, by normal form,
\* by alias or by substring has been resolved to the fallback tool.
C14_Witness ==
    /\ qpc = "resolved"
    /\ tool_name = <<"O", "O", " ">>
    /\ resolved = FallbackTool

\* The completion is a JSON array of exactly these items, possibly fenced
\* and with a trailing comma.
RECURSIVE Joined(_)
Joined(items) ==
    IF Len(items) <= 1 THEN items
    ELSE <<Head(items), ",">> \o Joined(Tail(items))

IsArrayOf(text, items) ==
    SelectSeq(text, NotFence) \in
        { <<"[">> \o Joined(items) \o <<"]">>,
          <<"[">> \o Joined(items) \o <<",", "]">> }

HasItem(text) == \E i \in 1..Len(text) : text[i] \in ItemTokens

\* C15: for every completion the Decomposer returns a non-empty list; a
\* completion holding an array of items yields those items in order; a
\* completion holding no item at all yields exactly one sub-question, the
\* whole question routed to the default general-purpose tool.
C15_DecomposerNeverEmpty ==
    qpc = "decomposed" =>
        /\ Len(sub_questions) >= 1
        /\ \A items \in AllSeqs(ItemTokens, 2) \ {<<>>} :
             IsArrayOf(completion, items) =>
               /\ Len(sub_questions) = Len(items)
               /\ \A i \in 1..Len(items) :
                    sub_questions[i].sub_question = ItemOf(items[i]).sub_question
        /\ ~HasItem(completion) =>
             sub_questions = <<SubQuestion(question, general_tool, "none")>>

\* C15 witness: a completion of garbage only has been answered by the
\* fallback.
C15_Witness ==
    /\ qpc = "decomposed"
    /\ completion = <<"x", ",", "]">>
    /\ sub_questions = <<SubQuestion(question, general_tool, "none")>>

IsOptimizerPair(sqs) ==
    /\ Len(sqs) = 2
    /\ \A i \in 1..2 : sqs[i].tool = optimization_tool
    /\ {sqs[1].tag, sqs[2].tag} = {"purchase", "lease"}

C17_ResidentialRates ==
    /\ \A i \in 1..Len(payloads) :
         payloads[i].property_type = "residential" =>
           /\ payloads[i].ownership_type = "purchase" =>
                payloads[i].federal_tax_credit_rate = 0
           /\ payloads[i].ownership_type = "lease" =>
                payloads[i].federal_tax_credit_rate = 30
    /\ \A i \in 1..Len(scenarios) :
         scenarios[i].property_type = "residential" =>
           /\ scenarios[i].ownership_type = "purchase" =>
                scenarios[i].fed_itc_fraction = 0
           /\ scenarios[i].ownership_type = "lease" =>
                scenarios[i].fed_itc_fraction = 30
    /\ federal_tax_credit_rate(
           GlobalSettings("residential", "purchase", construction_start_date)) = 0
    /\ federal_tax_credit_rate(
           GlobalSettings("residential", "lease", construction_start_date)) = 30

\* C17 witness: after the cutoff, with construction starting before it, a
\* residential purchase scenario with rate 0 and a residential lease
\* scenario with rate 30 have been computed.
C17_Witness ==
    /\ today > cutoff_date
    /\ construction_start_date < cutoff_date
    /\ Len(scenarios) = 2
    /\ scenarios[1].ownership_type = "purchase" /\ scenarios[1].fed_itc_fraction = 0
    /\ scenarios[2].ownership_type = "lease" /\ scenarios[2].fed_itc_fraction = 30

\* C18: every payload posted and every scenario reported carries the rate
\* that the rule gives for its own property and ownership type, under the
\* logic block and under GlobalSettings alike, so that two of them with the
\* same types carry the same rate.
C18_RateIsThePolicyFunction ==
    /\ \A i \in 1..Len(payloads) :
         /\ payloads[i].federal_tax_credit_rate =
              fed_itc_fraction(payloads[i].property_type,
                               payloads[i].ownership_type)
         /\ payloads[i].federal_tax_credit_rate =
              get_financial_params(payloads[i].property_type,
                                   payloads[i].ownership_type,
                                   construction_start_date).federal_tax_credit_rate
    /\ \A i \in 1..Len(scenarios) :
         /\ scenarios[i].fed_itc_fraction = payloads[i].federal_tax_credit_rate
         /\ scenarios[i].property_type = payloads[i].property_type
         /\ scenarios[i].ownership_type = payloads[i].ownership_type
    /\ fpc = "returned" => fresult.scenarios = scenarios

\* C18 witness: a commercial query with no ownership keyword has returned
\* its scenario with the full rate.
C18_Witness ==
    /\ fpc = "returned"
    /\ f_property_type = "commercial"
    /\ f_ownership_type = "none"
    /\ fresult.scenarios[1].fed_itc_fraction = 30

C20_BranchingCallsTwice ==
    /\ (fpc = "returned" /\ f_property_type = "residential"
                         /\ f_ownership_type = "none") =>
         /\ Len(payloads) = 2
         /\ payloads[1].ownership_type = "purchase"
         /\ payloads[2].ownership_type = "lease"
         /\ Len(fresult.scenarios) = 2
         /\ fresult.scenarios[1].ownership_type = "purchase"
         /\ fresult.scenarios[2].ownership_type = "lease"
         /\ fresult.compared
         /\ fresult.npv_difference =
              fresult.scenarios[2].npv - fresult.scenarios[1].npv
    /\ (fpc = "returned" /\ f_property_type = "commercial") =>
         /\ Len(payloads) = 1
         /\ Len(fresult.scenarios) = 1
         /\ ~fresult.compared
    /\ Len(payloads) <= Len(scenarios) + 1

\* C20 witness: a residential query has returned a purchase scenario whose
\* NPV is higher than that of the lease scenario, and the difference is
\* negative.
C20_Witness ==
    /\ fpc = "returned"
    /\ ftext = ResidentialQuery
    /\ fresult.scenarios[1].npv = 2
    /\ fresult.scenarios[2].npv = 1
    /\ fresult.npv_difference = -1

\* The construction-start condition of the incentive: construction has
\* commenced, before the cutoff date.
ConstructionStartMet ==
    construction_start_date <= today /\ construction_start_date < cutoff_date

\* C28: the result of an optimizer run carries a policy_warning exactly when
\* the property type is commercial or industrial, today is before the cutoff
\* date and the construction-start condition is not met; a residential
\* result, and a result on or after the cutoff date, never carries one.
C28_PolicyWarningExact ==
    fpc = "returned" =>
        ( fresult.policy_warning # "None"
          <=> /\ f_property_type \in {"commercial", "industrial"}
              /\ today < cutoff_date
              /\ ~ConstructionStartMet )

\* C29: every residential payload carries the one forced horizon, every
\* commercial payload a strictly shorter one, and the two scenarios of a
\* residential comparison carry the same horizon.
C29_HorizonByPropertyType ==
    /\ \A k \in 1..Len(payloads) :
          LET residential_years ==
                  build_payload("residential", "purchase", cutoff_date).analysis_years
          IN  IF payloads[k].property_type = "residential"
              THEN payloads[k].analysis_years = residential_years
              ELSE payloads[k].analysis_years < residential_years
    /\ fresult.compared =>
          fresult.scenarios[1].analysis_years = fresult.scenarios[2].analysis_years

\* C30: with the purchase and the lease call running concurrently, in every
\* interleaving the request of the purchase call carries incentive rate 0 and
\* ownership purchase, and the request of the lease call carries the full
\* rate and ownership lease.
C30_BranchesShareNoState ==
    \A b \in Branches :
        ppc[b] \in {"awaiting", "done"} =>
            /\ posted[b].ownership_type = b
            /\ posted[b].federal_tax_credit_rate = (IF b = "purchase" THEN 0 ELSE 30)
            /\ (ppc[b] = "done" =>
                   presults[b].fed_itc_fraction = posted[b].federal_tax_credit_rate)

\* C30 witness: each call sent its request while the shared settings object
\* held the other call's ownership type, and both have returned.
C30_Witness ==
    /\ \A b \in Branches : ppc[b] = "done"
    /\ settings_at_post["purchase"] = "lease"
    /\ posted["purchase"].federal_tax_credit_rate = 0
    /\ posted["lease"].federal_tax_credit_rate = 30

\* C39: for every property type and every ownership type, unspecified
\* included, the ITC logic block and GlobalSettings.federal_tax_credit_rate
\* return the same rate.
C39_RateImplementationsAgree ==
    \A k \in 1..Len(rate_calls) : rate_calls[k].logic_block = rate_calls[k].settings

\* C39 witness: both implementations were asked about a residential project
\* of unspecified ownership (rate 0) and about an industrial purchase
\* starting after the cutoff (full rate).
C39_Witness ==
    /\ Len(rate_calls) = 2
    /\ rate_calls[1].property_type = "residential"
    /\ rate_calls[1].ownership_type = "none"
    /\ rate_calls[1].settings = 0
    /\ rate_calls[2].property_type = "industrial"
    /\ rate_calls[2].ownership_type = "purchase"
    /\ rate_calls[2].construction_start_date > cutoff_date
    /\ rate_calls[2].settings = 30

(***************************************************************************)
(* Claims about the dispatcher                                             *)
(***************************************************************************)

\* C1: run over n sub-questions returns exactly n ToolResults, and result i
\* is the outcome of sub-question i, whatever the order in which the tools
\* ended and however each ended (returned, raised, timed out).
C1_OneResultPerSubQuestionInOrder ==
    dpc = "returned" =>
        /\ Len(returned) = Len(subqs)
        /\ \A i \in 1..Len(subqs) :
             /\ returned[i].index = i
             /\ returned[i].tool = subqs[i]
             /\ \E k \in 1..Len(completed) :
                  /\ completed[k].index = i
                  /\ completed[k].outcome = returned[i].outcome
                  /\ returned[i].success = (completed[k].outcome = "returned")

\* C1 witness: run has returned three results whose tools ended in the
\* reverse of the sub-questions' order, one by raising and one by timing out.
C1_Witness ==
    /\ dpc = "returned"
    /\ Len(returned) = 3
    /\ completed[1].index = 3
    /\ completed[3].index = 1
    /\ \E i, j \in 1..3 : returned[i].outcome = "error" /\ returned[j].outcome = "timeout"

\* The step ends the invocation of sub-question i by an exception or timeout.
ToolFails(i) ==
    /\ i \in 1..Len(subqs)
    /\ tstatus[i] = "running"
    /\ tstatus'[i] # "running"
    /\ completed'[Len(completed')].index = i
    /\ completed'[Len(completed')].outcome \in {"error", "timeout"}

C27_RunTerminates ==
    /\ (dpc = "gathering" ~> dpc = "returned")
    /\ [][ \A i \in 1..MaxSubQuestions :
             ( /\ i \in 1..Len(subqs)
               /\ tstatus[i] = "running"
               /\ completed' = Append(completed, [index |-> i, outcome |-> "timeout"]) )
             => /\ tstatus'[i] = "done"
                /\ results'[i].success = FALSE
                /\ results'[i].outcome = "timeout" ]_vars
    /\ [](dpc = "returned" => \A i \in 1..Len(subqs) : returned[i] # NoResult)

\* C27 witness: no tool of a run of three completed; each was cut off at the
\* time budget and run returned three timeout results.
C27_Witness ==
    /\ dpc = "returned"
    /\ Len(returned) = 3
    /\ \A i \in 1..3 : returned[i].outcome = "timeout" /\ ~returned[i].success

(***************************************************************************)
(* Claims about the Answer Synthesizer                                     *)
(***************************************************************************)

\* How many sources the successful ToolResults before index i list.
RECURSIVE SuccessfulSourcesBefore(_)
SuccessfulSourcesBefore(i) ==
    IF i <= 1 THEN 0
    ELSE SuccessfulSourcesBefore(i - 1)
         + (IF tool_results[i - 1].success
            THEN Len(tool_results[i - 1].sources) ELSE 0)

\* C32: the sources of the FinalAnswer are the sources of the successful
\* ToolResults in sub-question order and nothing else: each successful
\* result's sources stand one after the other behind those of the successful
\* results before it, failed results contribute none, and num_sources is the
\* number of sources aggregated.
C32_SourcesOfSuccessfulResults ==
    ypc = "answered" =>
        /\ Len(final_answer.sources) = SuccessfulSourcesBefore(Len(tool_results) + 1)
        /\ \A i \in 1..Len(tool_results) :
              tool_results[i].success =>
                 \A k \in 1..Len(tool_results[i].sources) :
                    final_answer.sources[SuccessfulSourcesBefore(i) + k]
                        = tool_results[i].sources[k]
        /\ final_answer.num_sources = Len(final_answer.sources)

\* C32 witness: of three ToolResults the middle one failed although it lists
\* sources; the FinalAnswer holds the sources of the first and the third.
C32_Witness ==
    /\ ypc = "answered"
    /\ Len(tool_results) = 3
    /\ tool_results[1].success /\ tool_results[1].sources = <<"doc_a">>
    /\ ~tool_results[2].success /\ tool_results[2].sources = <<"doc_a", "doc_b">>
    /\ tool_results[3].success /\ tool_results[3].sources = <<"doc_a", "doc_b">>
    /\ final_answer.num_sources = 3

(***************************************************************************)
(* Claims about the streaming client                                       *)
(***************************************************************************)

\* C40: whenever a submitted query has finished (loading is false and
\* loadingStage null again), a response or an error is set, whatever the
\* response body delivered before it closed.
C40_FinishedWithResponseOrError ==
    (kpc = "finished" /\ ~loading /\ loadingStage = "null")
        => (response # "null" \/ error # "null")

(***************************************************************************)
(* Claims about the composed provider call                                 *)
(***************************************************************************)

\* A step in which the provider raised: the attempt failed.
AttemptFails == xpc = "fetching" /\ xpc' \in {"sleeping", "raised"}

\* A step in which an attempt fails fast: the sequence ends with the breaker's
\* error and without another invocation of the provider.
FastFailEndsSequence ==
    /\ xpc' = "raised"
    /\ x_outcome' = "Circuit breaker is OPEN"
    /\ provider_calls' = provider_calls

\* C33: every failed attempt of a retry sequence is counted by the breaker,
\* and once the breaker is Open during the sequence the next attempt (any
\* attempt after the first that finds it Open) fails fast and ends the
\* sequence, unretried and without the provider being invoked again.
C33_OpenEndsSequence ==
    [][ /\ AttemptFails => failure_count' = failure_count + 1
        /\ (xpc = "calling" /\ attempt > 0 /\ state = "open")
               => FastFailEndsSequence ]_vars

\* C33, amended: every failed attempt is counted by the breaker; an attempt
\* that finds the breaker Open before the cool-down has elapsed fails fast
\* and ends the sequence, unretried and without the provider being invoked;
\* with the default initial_delay every attempt that follows the opening is
\* such an attempt.  (A backoff sleep that outlasts the cool-down makes the
\* next attempt the HalfOpen trial instead.)
C33_OpenEndsSequenceWithinCooldown ==
    [][ /\ AttemptFails => failure_count' = failure_count + 1
        /\ (/\ xpc = "calling"
            /\ state = "open"
            /\ ~CooldownElapsed(now, last_failure_time[1]))
               => FastFailEndsSequence
        /\ (/\ xpc = "calling"
            /\ attempt > 0
            /\ state = "open"
            /\ r_initial_delay = initial_delay)
               => FastFailEndsSequence ]_vars

\* A sequence whose failed attempts opened the breaker was ended by the
\* fast-fail of its next attempt.
C33_Witness ==
    /\ xpc = "raised"
    /\ x_outcome = "Circuit breaker is OPEN"
    /\ attempt > 0
    /\ provider_calls > 0
    /\ state = "open"
    /\ failure_count >= failure_threshold

\* C38: while the breaker is Open and the cool-down has not elapsed, a
\* provider call fails with the breaker's error even when a valid cache entry
\* exists for its key, and the cache is neither read nor written.
C38_OpenBreakerHidesCache ==
    [][ (/\ xpc = "calling"
         /\ state = "open"
         /\ ~CooldownElapsed(now, last_failure_time[1])
         /\ CacheValid(x_key))
            => (/\ FastFailEndsSequence
                /\ cache' = cache
                /\ cache_lookups' = cache_lookups) ]_vars

\* A provider call was rejected while a valid entry existed for its key.
C38_Witness ==
    /\ xpc = "raised"
    /\ x_outcome = "Circuit breaker is OPEN"
    /\ state = "open"
    /\ CacheValid(x_key)
====
